---- MODULE Spec2Model ----
(***************************************************************************)
(* A model of the slide geometry and text mutation engine of the           *)
(* LTR -> RTL presentation converter:                                      *)
(*   backend/modules/rtl_converter.py          grouping, mirroring         *)
(*   backend/modules/chart_collision_fixer.py  chart collision shifting    *)
(*   backend/modules/text_replacer.py          text replacement            *)
(*   backend/workflows/translate_all_slides.py the pipeline                *)
(*                                                                         *)
(* Lengths are EMU integers.  Slides are drawn on a grid of half the       *)
(* minimum spacing, so that gaps below, at and above the spacing occur.    *)
(***************************************************************************)
EXTENDS Integers, Sequences, FiniteSets, TLC

VARIABLES
    slideW,   \* prs.slide_width
    shapes,   \* the slide's top-level shapes (children of spTree), in z-order
    pre,      \* the top-level shapes before the last operation ran
    op,       \* the last operation that ran
    ret,      \* the last value returned by group_chart_elements
    stage,    \* position in the pipeline of translate_all_slides
    mIn,      \* mirror arithmetic: the input <<left, width, W>>
    mCur,     \* mirror arithmetic: the current left
    mN,       \* mirror arithmetic: the number of times mirror was applied
    tf,       \* text replacement: the shape's text frame
    tfPre,    \* text replacement: the text frame before the replacement
    repl,     \* text replacement: the replacement strings handed over
    tfOp,     \* text replacement: the replacement function that ran
    structure,        \* one slide task: the slide structure handed to the translator
    reply,            \* one slide task: what the translation service answered
    slideData,        \* one slide task: the outcome of process_single_slide
    apiCalls,         \* one slide task: requests sent to the translation service
    replaced,         \* one slide task: the replacement chosen per element
    slideCount,       \* the job: len(prs.slides)
    futures,          \* the job: state of each submitted future
    results,          \* the job: what each finished future holds
    yielded,          \* the job: futures as_completed has handed over
    all_slides_data,  \* the job: the pre-allocated result list
    pc,               \* the job: position of the main thread
    cursor,           \* the job: slides the running stage has finished
    arrow,            \* arrow mirroring: the named shape handed to _flip_shape_position
    arrowPre,         \* arrow mirroring: the shape before the call
    openai_client,    \* translation client: the module global _openai_client
    constructed,      \* translation client: how many times OpenAI(...) was called
    tpc,              \* translation client: position of each slide task
    used              \* translation client: the client each task got back

geomVars == <<slideW, shapes, pre, op, ret, stage>>
mirrorVars == <<mIn, mCur, mN>>
textVars == <<tf, tfPre, repl, tfOp>>
taskVars == <<structure, reply, slideData, apiCalls, replaced>>
jobVars == <<slideCount, futures, results, yielded, all_slides_data, pc, cursor>>
arrowVars == <<arrow, arrowPre>>
clientVars == <<openai_client, constructed, tpc, used>>
vars == <<slideW, shapes, pre, op, ret, stage, mIn, mCur, mN, tf, tfPre, repl, tfOp,
          structure, reply, slideData, apiCalls, replaced,
          slideCount, futures, results, yielded, all_slides_data, pc, cursor,
          arrow, arrowPre, openai_client, constructed, tpc, used>>

(***************************************************************************)
(* Program constants                                                       *)
(***************************************************************************)
MinSpacing == 182880
Proximity == 700000

(***************************************************************************)
(* Bounds of the model                                                     *)
(***************************************************************************)
MaxParas == 3       \* paragraphs of an input text frame
MaxRepl == 3        \* replacement strings handed to _replace_bullets
MaxShapes == 3      \* top-level shapes on the input slide
MaxK == 5           \* largest left coordinate of an input shape, in grid steps
SlideK == 6         \* slide width in grid steps
MaxMirrorW == 9     \* mirror arithmetic: largest axis width
MaxElems == 4       \* elements of a slide structure
MaxSlides == 6      \* slides of a job

Grid == MinSpacing \div 2

(***************************************************************************)
(* Helpers                                                                 *)
(***************************************************************************)
Max2(a, b) == IF a >= b THEN a ELSE b
Min2(a, b) == IF a <= b THEN a ELSE b
SetMin(S) == CHOOSE x \in S : \A y \in S : x <= y
SetMax(S) == CHOOSE x \in S : \A y \in S : x >= y
Abs(x) == IF x < 0 THEN -x ELSE x

RECURSIVE SeqSum(_)
SeqSum(s) == IF s = <<>> THEN 0 ELSE Head(s) + SeqSum(Tail(s))

(***************************************************************************)
(* Shapes.  xfrm = FALSE models an element without a transform: python-    *)
(* pptx then returns None for left, top, width and height.                 *)
(***************************************************************************)
\* chOff and chExt are a group's child offset and child extent (its local
\* frame); kids are a group's children, their offsets in that frame.
Shp(kind, id, x, l, t, w, h, kids) ==
    [kind |-> kind, id |-> id, xfrm |-> x, left |-> l, top |-> t,
     width |-> w, height |-> h, kids |-> kids,
     chOff |-> <<0, 0>>,
     chExt |-> IF kind = "group" THEN <<w, h>> ELSE <<0, 0>>]

IsChart(s) == s.kind = "chart"
IsGroup(s) == s.kind = "group"
\* is_placeholder and 'title' in name.lower()
IsTitlePlaceholder(s) == s.kind = "title"
\* python-pptx: has_text_frame is True for every p:sp
HasTextFrame(s) == s.kind \in {"text", "title"}

(***************************************************************************)
(* rtl_converter.py: _distance_to_chart.  The code returns                 *)
(* (dx*dx + dy*dy) ** 0.5; the model keeps the square, which orders the    *)
(* same way and is 0 exactly when the distance is.                         *)
(***************************************************************************)
\* Squares of EMU lengths do not fit TLC's 32-bit integers: a square is
\* kept exactly as <<high, low>> in base Limb * Limb (lengths below 2^24).
Limb == 64 * 64
Square(x) ==
    LET xh == x \div Limb
        xl == x % Limb
        m == 2 * xh * xl
        low == (m % Limb) * Limb + xl * xl
    IN  <<xh * xh + (m \div Limb) + (low \div (Limb * Limb)), low % (Limb * Limb)>>
SumOfSquares(dx, dy) ==
    LET a == Square(dx)
        b == Square(dy)
    IN  <<a[1] + b[1] + ((a[2] + b[2]) \div (Limb * Limb)), (a[2] + b[2]) % (Limb * Limb)>>

\* float('inf')
Inf == <<-1, 0>>
Zero == <<0, 0>>
IsInf(d) == d = Inf
IsLess(a, b) ==
    /\ ~IsInf(a)
    /\ \/ IsInf(b)
       \/ a[1] < b[1]
       \/ a[1] = b[1] /\ a[2] < b[2]
IsLessEq(a, b) == a = b \/ IsLess(a, b)

DistanceToChart(s, c) ==
    IF ~s.xfrm \/ ~c.xfrm THEN Inf
    ELSE LET shape_right == s.left + s.width
             shape_bottom == s.top + s.height
             chart_right == c.left + c.width
             chart_bottom == c.top + c.height
         IN  IF /\ shape_right >= c.left /\ s.left <= chart_right
                /\ shape_bottom >= c.top /\ s.top <= chart_bottom
             THEN Zero
             ELSE LET dx == IF shape_right < c.left THEN c.left - shape_right
                            ELSE IF s.left > chart_right THEN s.left - chart_right
                            ELSE 0
                      dy == IF shape_bottom < c.top THEN c.top - shape_bottom
                            ELSE IF s.top > chart_bottom THEN s.top - chart_bottom
                            ELSE 0
                  IN  SumOfSquares(dx, dy)

(***************************************************************************)
(* rtl_converter.py: group_chart_elements, step 1 and step 2               *)
(***************************************************************************)
ChartsFound(tree) == SelectSeq(tree, IsChart)

\* mutant: among equally near charts the last one wins
RECURSIVE NearestChartLast(_, _, _, _)
NearestChartLast(s, charts, k, best) ==
    IF k > Len(charts) THEN best
    ELSE LET d == DistanceToChart(s, charts[k])
         IN  NearestChartLast(s, charts, k + 1,
                              IF IsLessEq(d, best[1]) THEN <<d, k>> ELSE best)

\* the loop over charts_found: <<min_distance, nearest_chart_idx>>, 0 = None
RECURSIVE NearestChart(_, _, _, _)
NearestChart(s, charts, k, best) ==
    IF k > Len(charts) THEN best
    ELSE LET d == DistanceToChart(s, charts[k])
         IN  NearestChart(s, charts, k + 1,
                          IF IsLess(d, best[1]) THEN <<d, k>> ELSE best)

\* proximity_threshold = 0
ProximityThreshold == Zero

Associated(s, charts) ==
    LET near == NearestChart(s, charts, 1, <<Inf, 0>>)
    IN  /\ ~IsChart(s) /\ ~IsGroup(s) /\ ~IsTitlePlaceholder(s)
        /\ IsLessEq(near[1], ProximityThreshold)

\* shape_to_nearest_chart: shape id -> chart index (a later shape with the
\* same key overwrites an earlier one)
ShapeToNearestChart(tree, charts) ==
    LET keys == {tree[i].id : i \in {j \in 1..Len(tree) : Associated(tree[j], charts)}}
    IN  [id \in keys |->
            LET last == SetMax({j \in 1..Len(tree) :
                                  tree[j].id = id /\ Associated(tree[j], charts)})
            IN  NearestChart(tree[last], charts, 1, <<Inf, 0>>)[2]]

(***************************************************************************)
(* rtl_converter.py: _group_shapes_xml.  members is the sequence of        *)
(* positions in tree of shapes_to_group, the chart first.                  *)
(***************************************************************************)
RECURSIVE RemoveAt(_, _)
RemoveAt(tree, idxs) ==
    IF tree = <<>> THEN <<>>
    ELSE LET n == Len(tree)
             rest == RemoveAt(SubSeq(tree, 1, n - 1), idxs)
         IN  IF n \in idxs THEN rest ELSE Append(rest, tree[n])

\* mutant: the chart (the first member) stays in the shape tree
MoveOutKeepChart(tree, members) ==
    RemoveAt(tree, {members[i] : i \in 2..Len(members)})

\* mutant: the members are copied into the group, none leaves the shape tree
MoveOutNothing(tree, members) == tree

\* grpSp.append(shape_element) moves the element: it leaves the shape tree
MoveOut(tree, members) == RemoveAt(tree, {members[i] : i \in 1..Len(members)})

GroupId(tree) == (Len(tree) + 2) + 1

\* mutant: the group's width is its right edge, min_left not subtracted
GroupBoxWidthFromRight(tree, members) ==
    LET ms == {members[i] : i \in 1..Len(members)}
        min_left == SetMin({tree[m].left : m \in ms})
        min_top == SetMin({tree[m].top : m \in ms})
        max_right == SetMax({tree[m].left + tree[m].width : m \in ms})
        max_bottom == SetMax({tree[m].top + tree[m].height : m \in ms})
    IN  [left |-> min_left, top |-> min_top,
         width |-> max_right, height |-> max_bottom - min_top]

GroupBox(tree, members) ==
    LET ms == {members[i] : i \in 1..Len(members)}
        min_left == SetMin({tree[m].left : m \in {x \in ms : tree[x].xfrm}})
        min_top == SetMin({tree[m].top : m \in {x \in ms : tree[x].xfrm}})
        max_right == SetMax({tree[m].left + tree[m].width : m \in {x \in ms : tree[x].xfrm}})
        max_bottom == SetMax({(IF tree[m].xfrm THEN tree[m].top ELSE 0)
                              + (IF tree[m].xfrm THEN tree[m].height ELSE 0) : m \in ms})
    IN  [left |-> min_left, top |-> min_top,
         width |-> max_right - min_left, height |-> max_bottom - min_top]

\* mutant: the member keeps its absolute offset inside the group
LocalChildAbsolute(s, box) == s

\* the member moved into the group: its offset rewritten relative to the group
LocalChild(s, box) ==
    IF s.xfrm THEN [s EXCEPT !.left = s.left - box.left, !.top = s.top - box.top]
    ELSE s

GroupShapesXml(tree, members) ==
    IF Len(members) < 2 THEN tree
    ELSE LET box == GroupBox(tree, members)
             grp == [Shp("group", GroupId(tree), TRUE, box.left, box.top,
                         box.width, box.height,
                         [i \in 1..Len(members) |-> LocalChild(tree[members[i]], box)])
                     EXCEPT !.chOff = <<0, 0>>, !.chExt = <<box.width, box.height>>]
         IN  Append(MoveOut(tree, members), grp)

(***************************************************************************)
(* rtl_converter.py: group_chart_elements, step 3                          *)
(***************************************************************************)
\* the inner loop over slide.shapes: <<related positions, already_grouped>>
RECURSIVE RelatedShapes(_, _, _, _, _, _)
RelatedShapes(tree, i, chart_idx, map, already, acc) ==
    IF i > Len(tree) THEN <<acc, already>>
    ELSE LET s == tree[i]
             take == /\ s.id \notin already
                     /\ ~IsGroup(s) /\ ~IsChart(s) /\ ~IsTitlePlaceholder(s)
                     /\ s.id \in DOMAIN map
                     /\ map[s.id] = chart_idx
         IN  IF take
             THEN RelatedShapes(tree, i + 1, chart_idx, map, already \cup {s.id},
                                Append(acc, i))
             ELSE RelatedShapes(tree, i + 1, chart_idx, map, already, acc)

PositionOf(tree, chart) ==
    CHOOSE i \in 1..Len(tree) : IsChart(tree[i]) /\ tree[i].id = chart.id

\* the loop over charts_found: <<tree, groups_created>>
RECURSIVE GroupLoop(_, _, _, _, _, _)
GroupLoop(tree, charts, chart_idx, map, already, created) ==
    IF chart_idx > Len(charts) THEN <<tree, created>>
    ELSE LET chart == charts[chart_idx]
         IN  IF chart.id \in already
             THEN GroupLoop(tree, charts, chart_idx + 1, map, already, created)
             ELSE LET rel == RelatedShapes(tree, 1, chart_idx, map,
                                           already \cup {chart.id},
                                           <<PositionOf(tree, chart)>>)
                  IN  IF Len(rel[1]) > 1
                      THEN GroupLoop(GroupShapesXml(tree, rel[1]), charts,
                                     chart_idx + 1, map, rel[2], created + 1)
                      ELSE GroupLoop(tree, charts, chart_idx + 1, map, rel[2], created)

\* <<the slide's shapes afterwards, the number of groups created>>
GroupChartElements(tree) ==
    LET charts == ChartsFound(tree)
    IN  IF charts = <<>> THEN <<tree, 0>>
        ELSE GroupLoop(tree, charts, 1, ShapeToNearestChart(tree, charts), {}, 0)

(***************************************************************************)
(* rtl_converter.py: _get_chart_regions, _is_near_chart, _flip_shape_position *)
(***************************************************************************)
ChartRegions(tree) ==
    {[left |-> tree[i].left, top |-> tree[i].top,
      right |-> tree[i].left + tree[i].width,
      bottom |-> tree[i].top + tree[i].height] :
        i \in {j \in 1..Len(tree) : IsChart(tree[j]) /\ tree[j].xfrm}}

IsNearChart(s, chart_regions) ==
    LET shape_left == IF s.xfrm THEN s.left ELSE 0
        shape_top == IF s.xfrm THEN s.top ELSE 0
    IN  \E chart \in chart_regions :
            /\ shape_left >= chart.left - Proximity
            /\ shape_left <= chart.right + Proximity
            /\ shape_top >= chart.top - Proximity
            /\ shape_top <= chart.bottom + Proximity

\* mutant: the width is left out of the mirror
MirrorLeftNoWidth(old_left, shape_width, slide_width) ==
    Min2(Max2(0, slide_width - old_left), slide_width - shape_width)

\* new_left = slide_width - (old_left + shape_width), then the two clamps
MirrorLeft(old_left, shape_width, slide_width) ==
    Min2(Max2(0, slide_width - (old_left + shape_width)), slide_width - shape_width)

\* mutant: the height is always written from the width
MirrorHeightFromWidth(s) == s.width

\* the height written back: shape_height if it is not None else shape_width
\* (python-pptx gives a height whenever it gives a width)
MirrorHeight(s) == IF s.xfrm THEN s.height ELSE s.width

\* mutant: charts are mirrored like any other shape
FlipShapePositionChartsToo(s, slide_width, chart_regions) ==
    IF chart_regions # {} /\ HasTextFrame(s) /\ IsNearChart(s, chart_regions) THEN s
    ELSE IF ~s.xfrm THEN s
    ELSE [s EXCEPT !.left = MirrorLeft(s.left, s.width, slide_width)]

FlipShapePosition(s, slide_width, chart_regions) ==
    IF IsChart(s) THEN s
    ELSE IF chart_regions # {} /\ HasTextFrame(s) /\ IsNearChart(s, chart_regions) THEN s
    ELSE IF ~s.xfrm THEN s
    ELSE [s EXCEPT !.left = MirrorLeft(s.left, s.width, slide_width),
                   !.top = s.top,
                   !.width = s.width,
                   !.height = MirrorHeight(s)]

\* mutant: groups are left where they are
FlipToRtlLayoutSkipGroups(tree, slide_width) ==
    LET chart_regions == ChartRegions(tree)
    IN  [i \in 1..Len(tree) |->
            IF IsGroup(tree[i]) THEN tree[i]
            ELSE FlipShapePosition(tree[i], slide_width, chart_regions)]

\* flip_to_rtl_layout, one slide: the chart regions are read once, before
\* any shape is moved
FlipToRtlLayout(tree, slide_width) ==
    LET chart_regions == ChartRegions(tree)
    IN  [i \in 1..Len(tree) |-> FlipShapePosition(tree[i], slide_width, chart_regions)]

(***************************************************************************)
(* chart_collision_fixer.py                                                *)
(***************************************************************************)
ContainsChart(g) == \E i \in 1..Len(g.kids) : IsChart(g.kids[i])

\* group_info: x if x else 0 is 0 for None and for 0
GroupInfo(tree, i) ==
    LET s == tree[i]
        l == IF s.xfrm THEN s.left ELSE 0
        t == IF s.xfrm THEN s.top ELSE 0
        w == IF s.xfrm THEN s.width ELSE 0
        h == IF s.xfrm THEN s.height ELSE 0
    IN  [shape |-> i, left |-> l, top |-> t, width |-> w, height |-> h,
         right |-> IF l # 0 /\ w # 0 THEN l + w ELSE 0,
         bottom |-> IF t # 0 /\ h # 0 THEN t + h ELSE 0]

GroupPositions(tree, chartGroups) ==
    SelectSeq([i \in 1..Len(tree) |-> i],
              LAMBDA i : IsGroup(tree[i]) /\ (ContainsChart(tree[i]) <=> chartGroups))

InfoCollides(c, o) ==
    LET h_overlap == c.left < o.right /\ c.right > o.left
        v_overlap == c.top < o.bottom /\ c.bottom > o.top
    IN  h_overlap /\ v_overlap

\* _detect_collisions_on_slide: the collisions in the order they are found
RECURSIVE DetectInner(_, _, _)
DetectInner(c, others, k) ==
    IF k > Len(others) THEN <<>>
    ELSE (IF InfoCollides(c, others[k])
          THEN <<[chart_group |-> c, other_group |-> others[k]]>> ELSE <<>>)
         \o DetectInner(c, others, k + 1)

RECURSIVE DetectOuter(_, _, _)
DetectOuter(charts, others, k) ==
    IF k > Len(charts) THEN <<>>
    ELSE DetectInner(charts[k], others, 1) \o DetectOuter(charts, others, k + 1)

DetectChartCollisions(tree) ==
    LET cpos == GroupPositions(tree, TRUE)
        opos == GroupPositions(tree, FALSE)
        chart_groups == [k \in 1..Len(cpos) |-> GroupInfo(tree, cpos[k])]
        non_chart_groups == [k \in 1..Len(opos) |-> GroupInfo(tree, opos[k])]
    IN  DetectOuter(chart_groups, non_chart_groups, 1)

\* mutant: the chart is always shifted left
ShiftedLeftAlwaysLeft(collision, slide_width) ==
    collision.other_group.left - collision.chart_group.width - MinSpacing

\* _shift_chart_to_minimize_overlap: the chart group's new left
ShiftedLeft(collision, slide_width) ==
    LET chart_left == collision.chart_group.left
        chart_width == collision.chart_group.width
        other_left == collision.other_group.left
        other_right == collision.other_group.right
        new_left_option1 == other_left - chart_width - MinSpacing
        option1_valid == new_left_option1 >= 0
        new_left_option2 == other_right + MinSpacing
        option2_valid == TRUE
    IN  IF option1_valid /\ option2_valid
        THEN IF Abs(new_left_option1 - chart_left) <= Abs(new_left_option2 - chart_left)
             THEN new_left_option1 ELSE new_left_option2
        ELSE IF option1_valid THEN new_left_option1
        ELSE IF option2_valid THEN new_left_option2
        ELSE slide_width - chart_width

\* python-pptx: assigning left to a shape without a transform adds one
SetLeft(s, x) ==
    IF s.xfrm THEN [s EXCEPT !.left = x]
    ELSE [s EXCEPT !.xfrm = TRUE, !.left = x, !.top = 0, !.width = 0, !.height = 0]

RECURSIVE ApplyShifts(_, _, _, _)
ApplyShifts(tree, collisions, k, slide_width) ==
    IF k > Len(collisions) THEN tree
    ELSE LET i == collisions[k].chart_group.shape
         IN  ApplyShifts([tree EXCEPT ![i] = SetLeft(tree[i], ShiftedLeft(collisions[k], slide_width))],
                         collisions, k + 1, slide_width)

\* fix_chart_collisions_option_c, one slide
FixChartCollisions(tree, slide_width) ==
    ApplyShifts(tree, DetectChartCollisions(tree), 1, slide_width)

(***************************************************************************)
(* rtl_converter.py: _adjust_overlapping_groups                            *)
(***************************************************************************)
\* sorted(groups, key=lambda g: g.left if g.left else 0): a stable sort
SortKey(s) == IF s.xfrm THEN s.left ELSE 0

RECURSIVE InsertSorted(_, _, _)
InsertSorted(tree, sorted, i) ==
    IF sorted = <<>> THEN <<i>>
    ELSE IF SortKey(tree[Head(sorted)]) <= SortKey(tree[i])
         THEN <<Head(sorted)>> \o InsertSorted(tree, Tail(sorted), i)
         ELSE <<i>> \o sorted

RECURSIVE SortGroups(_, _)
SortGroups(tree, idxs) ==
    IF idxs = <<>> THEN <<>>
    ELSE InsertSorted(tree, SortGroups(tree, SubSeq(idxs, 1, Len(idxs) - 1)),
                      idxs[Len(idxs)])

\* the pair rule without the vertical-interval test
AdjustPairHorizontalOnly(tree, c, n, slide_width) ==
    LET current == tree[c]
        next_group == tree[n]
        current_left == IF current.xfrm THEN current.left ELSE 0
        current_width == IF current.xfrm THEN current.width ELSE 0
        next_left == IF next_group.xfrm THEN next_group.left ELSE 0
        next_width == IF next_group.xfrm THEN next_group.width ELSE 0
        horizontal_gap == next_left - (current_left + current_width)
        shift_amount == MinSpacing - horizontal_gap
    IN  IF horizontal_gap < MinSpacing
        THEN IF next_left + shift_amount + next_width <= slide_width
             THEN [tree EXCEPT ![n] = SetLeft(next_group, next_left + shift_amount)]
             ELSE IF current_left - shift_amount >= 0
                  THEN [tree EXCEPT ![c] = SetLeft(current, current_left - shift_amount)]
                  ELSE tree
        ELSE tree

\* one iteration of the loop over adjacent pairs, on the live positions
AdjustPair(tree, c, n, slide_width) ==
    LET current == tree[c]
        next_group == tree[n]
        current_left == IF current.xfrm THEN current.left ELSE 0
        current_width == IF current.xfrm THEN current.width ELSE 0
        current_right == current_left + current_width
        next_left == IF next_group.xfrm THEN next_group.left ELSE 0
        next_width == IF next_group.xfrm THEN next_group.width ELSE 0
        current_top == IF current.xfrm THEN current.top ELSE 0
        current_height == IF current.xfrm THEN current.height ELSE 0
        current_bottom == current_top + current_height
        next_top == IF next_group.xfrm THEN next_group.top ELSE 0
        next_height == IF next_group.xfrm THEN next_group.height ELSE 0
        next_bottom == next_top + next_height
        horizontal_gap == next_left - current_right
        horizontal_overlap == horizontal_gap < MinSpacing
        vertical_overlap == ~(current_bottom <= next_top \/ next_bottom <= current_top)
        shift_amount == MinSpacing - horizontal_gap
        new_left == next_left + shift_amount
        new_current_left == current_left - shift_amount
    IN  IF horizontal_overlap /\ vertical_overlap
        THEN IF new_left + next_width <= slide_width
             THEN [tree EXCEPT ![n] = SetLeft(next_group, new_left)]
             ELSE IF new_current_left >= 0
                  THEN [tree EXCEPT ![c] = SetLeft(current, new_current_left)]
                  ELSE tree
        ELSE tree

RECURSIVE AdjustLoop(_, _, _, _)
AdjustLoop(tree, groups_sorted, i, slide_width) ==
    IF i > Len(groups_sorted) - 1 THEN tree
    ELSE AdjustLoop(AdjustPair(tree, groups_sorted[i], groups_sorted[i + 1], slide_width),
                    groups_sorted, i + 1, slide_width)

AdjustOverlappingGroups(tree, slide_width) ==
    LET groups == SelectSeq([i \in 1..Len(tree) |-> i], LAMBDA i : IsGroup(tree[i]))
    IN  IF Len(groups) < 2 THEN tree
        ELSE AdjustLoop(tree, SortGroups(tree, groups), 1, slide_width)

(***************************************************************************)
(* text_replacer.py: the text frame of a shape.  An optional value is a    *)
(* sequence: None is empty, a present value v is <<v>>.  A snapshot dict   *)
(* is optional in the same way: {} is None (falsy, every .get gives None). *)
(***************************************************************************)
None == <<>>
Some(v) == <<v>>

Run(text, bold, italic, underline, font_name, font_size, color) ==
    [text |-> text, bold |-> bold, italic |-> italic, underline |-> underline,
     font_name |-> font_name, font_size |-> font_size, color |-> color]

\* fld is the text of the paragraph's content that is not a run (a field)
Paragraph(runs, fld, level, alignment, line_spacing, space_before, space_after) ==
    [runs |-> runs, fld |-> fld, level |-> level, alignment |-> alignment,
     line_spacing |-> line_spacing, space_before |-> space_before,
     space_after |-> space_after, rtl |-> FALSE]

\* text.strip() is empty
IsBlank(text) == text \in {"", " "}

\* paragraph.text.strip() is not empty
HasText(p) ==
    \/ ~IsBlank(p.fld)
    \/ \E r \in 1..Len(p.runs) : ~IsBlank(p.runs[r].text)

\* the run-level snapshot taken from a paragraph's first run
RunFormatting(first_run) ==
    [bold |-> first_run.bold, italic |-> first_run.italic,
     underline |-> first_run.underline, font_name |-> first_run.font_name,
     font_size |-> first_run.font_size, color |-> first_run.color]

ParaFormatting(p) ==
    [line_spacing |-> p.line_spacing, space_before |-> p.space_before,
     space_after |-> p.space_after]

ParaData(p) ==
    [level |-> p.level,
     formatting |-> IF p.runs # <<>> THEN Some(RunFormatting(p.runs[1])) ELSE None,
     para_formatting |-> Some(ParaFormatting(p))]

DefaultData == [level |-> 0, formatting |-> None, para_formatting |-> None]

\* the snapshot of _replace_bullets: one entry per paragraph that has text
OriginalData(paragraphs) ==
    LET kept == SelectSeq(paragraphs, HasText)
    IN  [i \in 1..Len(kept) |-> ParaData(kept[i])]

\* while len(original_data) < len(translations): append the default
Padded(original_data, n) ==
    IF Len(original_data) >= n THEN original_data
    ELSE original_data \o [i \in 1..(n - Len(original_data)) |-> DefaultData]

\* text_frame.clear(): every paragraph but the first is removed, the first
\* loses its content and keeps its properties
Clear(paragraphs) ==
    <<[paragraphs[1] EXCEPT !.runs = <<>>, !.fld = ""]>>

\* text_frame.add_paragraph() followed by paragraph.add_run(), run.text = text
AddParagraph(text) ==
    Paragraph(<<Run(text, None, None, None, None, None, None)>>, "",
              0, None, None, None, None)

ArabicFonts ==
    {"Arial", "Calibri", "Times New Roman", "Tahoma", "Simplified Arabic",
     "Traditional Arabic", "Arabic Typesetting", "Sakkal Majalla", "Dubai",
     "Segoe UI"}
GrayColors == {"CCCCCC", "CCCECE", "C0C0C0", "CACACA", "D3D3D3", "BEBEBE"}
Black == "000000"

\* both branches of the family test end in Arial
FontName(font_name) == IF font_name \in ArabicFonts THEN "Arial" ELSE "Arial"

\* int(original_size * 0.9)
ScaledSize(original_size) == (original_size * 9) \div 10

FontColor(color) == IF color \in GrayColors THEN Black ELSE color

RestoreParaFormatting(p, para_formatting) ==
    IF para_formatting = None THEN p
    ELSE LET para_fmt == para_formatting[1]
         IN  [p EXCEPT
                !.line_spacing = IF para_fmt.line_spacing # None
                                 THEN para_fmt.line_spacing ELSE @,
                !.space_before = IF para_fmt.space_before # None
                                 THEN para_fmt.space_before ELSE @,
                !.space_after = IF para_fmt.space_after # None
                                THEN para_fmt.space_after ELSE @]

RestoreRunFormatting(run, formatting) ==
    IF formatting = None THEN run
    ELSE LET fmt == formatting[1]
         IN  [run EXCEPT
                !.bold = IF fmt.bold # None THEN fmt.bold ELSE @,
                !.italic = IF fmt.italic # None THEN fmt.italic ELSE @,
                !.underline = IF fmt.underline # None THEN fmt.underline ELSE @,
                !.font_name = IF fmt.font_name # None /\ fmt.font_name[1] # ""
                              THEN Some(FontName(fmt.font_name[1])) ELSE @,
                !.font_size = IF fmt.font_size # None /\ fmt.font_size[1] # 0
                              THEN Some(ScaledSize(fmt.font_size[1])) ELSE @,
                !.color = IF fmt.color # None
                          THEN Some(FontColor(fmt.color[1])) ELSE @]

\* the paragraph built for one replacement string
Restored(text, level, data) ==
    LET added == [AddParagraph(text) EXCEPT !.level = level, !.alignment = Some("RIGHT")]
        spaced == RestoreParaFormatting(added, data.para_formatting)
    IN  [spaced EXCEPT !.runs = <<RestoreRunFormatting(spaced.runs[1], data.formatting)>>]

\* word wrap, shrink to fit and Inches(0.03) margins
MarginEmu == 27432
Configured(frame) ==
    [frame EXCEPT !.word_wrap = Some(TRUE),
                  !.auto_size = Some("TEXT_TO_FIT_SHAPE"),
                  !.margin_left = Some(MarginEmu), !.margin_right = Some(MarginEmu),
                  !.margin_top = Some(MarginEmu), !.margin_bottom = Some(MarginEmu)]

ReplaceBullets(frame, translations) ==
    IF ~frame.has_text_frame THEN frame
    ELSE LET original_data == Padded(OriginalData(frame.paragraphs), Len(translations))
             added == [i \in 1..Len(translations) |->
                          Restored(translations[i], original_data[i].level,
                                   original_data[i])]
         IN  [Configured(frame) EXCEPT !.paragraphs = Clear(frame.paragraphs) \o added]

ReplaceSingleText(frame, translation) ==
    IF ~frame.has_text_frame THEN frame
    ELSE LET first_para == frame.paragraphs[1]
             original == [level |-> 0,
                          formatting |-> IF first_para.runs # <<>>
                                         THEN Some(RunFormatting(first_para.runs[1]))
                                         ELSE None,
                          para_formatting |-> Some(ParaFormatting(first_para))]
         IN  [Configured(frame) EXCEPT
                !.paragraphs = Clear(frame.paragraphs)
                                   \o <<Restored(translation, 0, original)>>]

TextFrame(has_text_frame, paragraphs) ==
    [has_text_frame |-> has_text_frame, paragraphs |-> paragraphs,
     word_wrap |-> None, auto_size |-> None, margin_left |-> None,
     margin_right |-> None, margin_top |-> None, margin_bottom |-> None]

NoFrame == TextFrame(FALSE, <<>>)

(***************************************************************************)
(* Input slides.  Heights are two grid steps.  Charts and groups are two   *)
(* steps wide and stand on every second grid step from 0 to MaxK.  Text    *)
(* boxes in the chart row are two steps wide and stand on every step from  *)
(* one step left of the slide to MaxK, so they overhang both slide edges.  *)
(* A shape is in the chart row (top RowTop), at the top edge of the slide, *)
(* or in a row further below the chart row than the proximity radius.      *)
(***************************************************************************)
K(k) == k * Grid
BoxH == K(2)
RowTop == K(1)
FarTop == RowTop + BoxH + Proximity + K(1)
EvenLefts == {l \in 0..MaxK : l % 2 = 0}

Kid(kind, w) == Shp(kind, 0, TRUE, 0, 0, w, BoxH, <<>>)

ChartPool == {Shp("chart", 0, TRUE, K(l), RowTop, K(2), BoxH, <<>>) : l \in EvenLefts}
TextPool ==
    {Shp("text", 0, TRUE, K(l), RowTop, K(2), BoxH, <<>>) : l \in (-1)..MaxK}
    \cup {Shp("text", 0, TRUE, 0, FarTop, K(1), BoxH, <<>>),
          Shp("text", 0, FALSE, 0, 0, 0, 0, <<>>)}
TitlePool == {Shp("title", 0, TRUE, K(1), 0, K(2), BoxH, <<>>)}
GroupPool ==
    {Shp("group", 0, TRUE, K(l), RowTop, K(2), BoxH, <<Kid(kind, K(2))>>) :
        l \in EvenLefts, kind \in {"text", "chart"}}
    \cup {Shp("group", 0, TRUE, 0, 0, K(2), BoxH, <<Kid("chart", K(2))>>)}
Pool == ChartPool \cup TextPool \cup TitlePool \cup GroupPool

\* ids as PowerPoint numbers them: the shape tree is 1, its shapes follow;
\* the children of the input's groups are numbered after every id a new
\* group can get
WithIds(tree) ==
    [i \in 1..Len(tree) |->
        [tree[i] EXCEPT !.id = i + 1,
                        !.kids = [k \in 1..Len(tree[i].kids) |->
                                     [tree[i].kids[k] EXCEPT !.id = MaxShapes + 3 + i]]]]

Slides == UNION {[1..n -> Pool] : n \in 1..MaxShapes}

\* the scenario slide: a chart and an overlapping caption, width 9144000
ScenarioW == 9144000
ScenarioSlide ==
    <<Shp("chart", 2, TRUE, 3000000, 500000, 4000000, 3000000, <<>>),
      Shp("text", 3, TRUE, 6000000, 500000, 1500000, 3000000, <<>>)>>

\* a wide slide: a chart, a label whose right edge is one grid step left of
\* the chart, and a picture two grid steps right of it
LabelW == K(120)
LabelSlide ==
    <<Shp("chart", 2, TRUE, K(40), K(10), K(40), K(30), <<>>),
      Shp("text", 3, TRUE, K(10), K(10), K(29), K(5), <<>>),
      Shp("picture", 4, TRUE, K(82), K(10), K(5), K(5), <<>>)>>

\* a wide slide: a group with a chart and a group without one, overlapping
CollisionSlide ==
    <<Shp("group", 2, TRUE, K(60), K(10), K(20), K(20), <<Kid("chart", K(20))>>),
      Shp("group", 3, TRUE, K(70), K(10), K(20), K(20), <<Kid("text", K(20))>>)>>

\* a wide slide: two groups one above the other, their horizontal spans overlapping
StackedSlide ==
    <<Shp("group", 2, TRUE, K(20), K(10), K(20), K(10), <<Kid("text", K(20))>>),
      Shp("group", 3, TRUE, K(25), K(40), K(20), K(10), <<Kid("text", K(20))>>)>>

\* a wide slide: a chart and a caption touching its lower edge
CaptionSlide ==
    <<Shp("chart", 2, TRUE, K(40), K(10), K(40), K(30), <<>>),
      Shp("text", 3, TRUE, K(45), K(40), K(20), K(5), <<>>)>>

\* a wide slide: two charts far apart, two captions touching the first and
\* one touching the second; ids 2..6 in slide order
TwoChartSlide ==
    <<Shp("chart", 2, TRUE, K(10), K(10), K(20), K(20), <<>>),
      Shp("text", 3, TRUE, K(10), K(30), K(5), K(5), <<>>),
      Shp("text", 4, TRUE, K(20), K(30), K(5), K(5), <<>>),
      Shp("chart", 5, TRUE, K(70), K(10), K(20), K(20), <<>>),
      Shp("text", 6, TRUE, K(70), K(30), K(5), K(5), <<>>)>>

NoMirror == <<0, 0, 0>>
InitNoText == tf = NoFrame /\ tfPre = NoFrame /\ repl = <<>> /\ tfOp = "load"
InitNoTask ==
    /\ structure = <<>> /\ reply = <<>> /\ slideData = <<>>
    /\ apiCalls = 0 /\ replaced = <<>>
InitNoJob ==
    /\ slideCount = 0 /\ futures = <<>> /\ results = <<>> /\ yielded = <<>>
    /\ all_slides_data = <<>> /\ pc = "idle" /\ cursor = <<>>

InitNoArrow == arrow = <<>> /\ arrowPre = <<>>
InitNoClient == openai_client = 0 /\ constructed = 0 /\ tpc = <<>> /\ used = <<>>

InitGeom ==
    /\ \/ \E s \in Slides : shapes = WithIds(s) /\ slideW = K(SlideK)
       \/ shapes = ScenarioSlide /\ slideW = ScenarioW
       \/ shapes = LabelSlide /\ slideW = LabelW
       \/ shapes = WithIds(CollisionSlide) /\ slideW = LabelW
       \/ shapes = WithIds(StackedSlide) /\ slideW = LabelW
       \/ shapes = CaptionSlide /\ slideW = LabelW
       \/ shapes = TwoChartSlide /\ slideW = LabelW
    /\ pre = shapes
    /\ op = "load"
    /\ ret = 0
    /\ stage = "loaded"

Init ==
    /\ InitGeom
    /\ mIn = NoMirror /\ mCur = 0 /\ mN = 0
    /\ InitNoText
    /\ InitNoTask /\ InitNoJob
    /\ InitNoArrow /\ InitNoClient

(***************************************************************************)
(* translate_all_slides, steps 4 to 5.5, on one slide                      *)
(***************************************************************************)
\* step 4: group_chart_elements(slide)
Group ==
    /\ stage = "loaded"
    /\ LET r == GroupChartElements(shapes)
       IN  shapes' = r[1] /\ ret' = r[2]
    /\ pre' = shapes
    /\ op' = "group"
    /\ stage' = "grouped"
    /\ UNCHANGED <<slideW, mIn, mCur, mN, tf, tfPre, repl, tfOp, taskVars, jobVars, arrowVars, clientVars>>

\* step 5: flip_to_rtl_layout
Mirror ==
    /\ stage \in {"grouped", "regrouped"}
    /\ shapes' = FlipToRtlLayout(shapes, slideW)
    /\ pre' = shapes
    /\ op' = "mirror"
    /\ stage' = "mirrored"
    /\ UNCHANGED <<slideW, ret, mIn, mCur, mN, tf, tfPre, repl, tfOp, taskVars, jobVars, arrowVars, clientVars>>

\* step 5.5: fix_chart_collisions_option_c
Fix ==
    /\ stage = "mirrored"
    /\ shapes' = FixChartCollisions(shapes, slideW)
    /\ pre' = shapes
    /\ op' = "fix"
    /\ stage' = "fixed"
    /\ UNCHANGED <<slideW, ret, mIn, mCur, mN, tf, tfPre, repl, tfOp, taskVars, jobVars, arrowVars, clientVars>>

Next == Group \/ Mirror \/ Fix

Spec == Init /\ [][Next]_vars

(***************************************************************************)
(* The functions called on their own: group_chart_elements a second time,  *)
(* and _adjust_overlapping_groups (which the pipeline does not call) after *)
(* the mirror or after the collision fix.                                  *)
(***************************************************************************)
Regroup ==
    /\ stage = "grouped"
    /\ LET r == GroupChartElements(shapes)
       IN  shapes' = r[1] /\ ret' = r[2]
    /\ pre' = shapes
    /\ op' = "regroup"
    /\ stage' = "regrouped"
    /\ UNCHANGED <<slideW, mIn, mCur, mN, tf, tfPre, repl, tfOp, taskVars, jobVars, arrowVars, clientVars>>

Adjust ==
    /\ stage \in {"mirrored", "fixed"}
    /\ shapes' = AdjustOverlappingGroups(shapes, slideW)
    /\ pre' = shapes
    /\ op' = "adjust"
    /\ stage' = "adjusted"
    /\ UNCHANGED <<slideW, ret, mIn, mCur, mN, tf, tfPre, repl, tfOp, taskVars, jobVars, arrowVars, clientVars>>

NextCalls == Group \/ Regroup \/ Mirror \/ Fix \/ Adjust

SpecCalls == Init /\ [][NextCalls]_vars

(***************************************************************************)
(* The mirror arithmetic of _flip_shape_position on its own                *)
(***************************************************************************)
MirrorInputs ==
    {<<l, w, W>> : l \in (-2)..(MaxMirrorW + 2), w \in 0..(MaxMirrorW + 1),
                   W \in 0..MaxMirrorW}

InitMirror ==
    /\ mIn \in MirrorInputs
    /\ mCur = mIn[1]
    /\ mN = 0
    /\ slideW = 0 /\ shapes = <<>> /\ pre = <<>> /\ op = "load" /\ ret = 0
    /\ stage = "arith"
    /\ InitNoText
    /\ InitNoTask /\ InitNoJob
    /\ InitNoArrow /\ InitNoClient

MirrorStep ==
    /\ stage = "arith"
    /\ mN < 2
    /\ mCur' = MirrorLeft(mCur, mIn[2], mIn[3])
    /\ mN' = mN + 1
    /\ UNCHANGED <<mIn, slideW, shapes, pre, op, ret, stage, tf, tfPre, repl, tfOp, taskVars, jobVars, arrowVars, clientVars>>

NextMirror == MirrorStep

SpecMirror == InitMirror /\ [][NextMirror]_vars

(***************************************************************************)
(* Text replacement on one shape: replace_text_in_slide hands a shape that *)
(* has text either to _replace_bullets (the translation is a list) or to   *)
(* _replace_single_text (it is a string).                                  *)
(***************************************************************************)
\* Calibri, 18pt, C0C0C0, bold
ScenarioRun == Run("a", Some(TRUE), None, None, Some("Calibri"), Some(228600),
                   Some("C0C0C0"))
PlainRun == Run("b", None, None, None, None, None, None)
SymbolRun == Run("c", Some(FALSE), Some(TRUE), Some(TRUE), Some("Wingdings"),
                 Some(152400), Some("FF0000"))
BlankRun == Run(" ", Some(TRUE), None, None, None, Some(152400), None)

\* what a paragraph holds: nothing, one run, two runs, or only a field
ContentPool ==
    {<<<<>>, "">>, <<<<ScenarioRun>>, "">>, <<<<PlainRun>>, "">>,
     <<<<SymbolRun>>, "">>, <<<<BlankRun>>, "">>,
     <<<<PlainRun, ScenarioRun>>, "">>, <<<<>>, "1">>}

\* a paragraph without properties, or an indented one with spacing
ParagraphPool ==
    {Paragraph(c[1], c[2], 0, None, None, None, None) : c \in ContentPool}
    \cup {Paragraph(c[1], c[2], 1, Some("LEFT"), Some(2), Some(76200), None) :
             c \in ContentPool}

\* shape.text.strip() is not empty
FramePool ==
    {TextFrame(TRUE, ps) :
        ps \in {q \in UNION {[1..n -> ParagraphPool] : n \in 1..MaxParas} :
                   \E i \in 1..Len(q) : HasText(q[i])}}

\* the replacement strings, as many as a call needs
Translations == <<"t1", "t2", "t3", "t4", "t5", "t6">>

InitText ==
    /\ tf \in FramePool
    /\ tfPre = tf
    /\ repl = <<>>
    /\ tfOp = "load"
    /\ slideW = 0 /\ shapes = <<>> /\ pre = <<>> /\ op = "load" /\ ret = 0
    /\ stage = "text"
    /\ mIn = NoMirror /\ mCur = 0 /\ mN = 0
    /\ InitNoTask /\ InitNoJob
    /\ InitNoArrow /\ InitNoClient

\* isinstance(translation, list): _replace_bullets(shape, translation)
Bullets ==
    /\ stage = "text"
    /\ tfOp = "load"
    /\ \E n \in 0..MaxRepl :
        LET translations == SubSeq(Translations, 1, n)
        IN  /\ tf' = ReplaceBullets(tf, translations)
            /\ repl' = translations
    /\ tfPre' = tf
    /\ tfOp' = "bullets"
    /\ UNCHANGED <<slideW, shapes, pre, op, ret, stage, mIn, mCur, mN, taskVars, jobVars, arrowVars, clientVars>>

\* otherwise: _replace_single_text(shape, translation)
SingleText ==
    /\ stage = "text"
    /\ tfOp = "load"
    /\ tf' = ReplaceSingleText(tf, Translations[1])
    /\ repl' = <<Translations[1]>>
    /\ tfPre' = tf
    /\ tfOp' = "single"
    /\ UNCHANGED <<slideW, shapes, pre, op, ret, stage, mIn, mCur, mN, taskVars, jobVars, arrowVars, clientVars>>

NextText == Bullets \/ SingleText

SpecText == InitText /\ [][NextText]_vars

(***************************************************************************)
(* The rtl attribute of paragraphs through grouping, mirror and text       *)
(* replacement, for a slide with one text shape                            *)
(***************************************************************************)
\* _remove_rtl_from_paragraph: del pPr.attrib['rtl']
RemoveRtlFromParagraph(p) == [p EXCEPT !.rtl = FALSE]

\* _set_text_rtl_and_alignment(shape)
SetTextRtlAndAlignment(frame) ==
    IF ~frame.has_text_frame THEN frame
    ELSE [frame EXCEPT !.paragraphs =
            [i \in 1..Len(frame.paragraphs) |->
                RemoveRtlFromParagraph(
                    [frame.paragraphs[i] EXCEPT !.alignment = Some("RIGHT")])]]

\* flip_to_rtl_layout visits slide.shapes: the text shape is one of them
TextIsTopLevel(tree) == \E i \in 1..Len(tree) : HasTextFrame(tree[i])

\* map_shapes_recursive also descends into groups
TextIsMapped(tree) ==
    \E i \in 1..Len(tree) :
        \/ HasTextFrame(tree[i])
        \/ IsGroup(tree[i]) /\ \E k \in 1..Len(tree[i].kids) : HasTextFrame(tree[i].kids[k])

\* flip_to_rtl_layout, second loop, on the text shape's frame
FlipToRtlLayoutText(tree, frame) ==
    IF TextIsTopLevel(tree) THEN SetTextRtlAndAlignment(frame) ELSE frame

\* a paragraph with rtl="1" in its properties
Marked(p) == [p EXCEPT !.rtl = TRUE]

\* the text shape alone, inside a group of the input, touching a chart, and
\* away from a chart
MarkerSlides ==
    {<<Shp("text", 2, TRUE, K(1), RowTop, K(2), BoxH, <<>>)>>,
     <<Shp("group", 2, TRUE, K(1), RowTop, K(2), BoxH,
           <<Shp("text", 3, TRUE, 0, 0, K(2), BoxH, <<>>)>>)>>,
     <<Shp("chart", 2, TRUE, 0, RowTop, K(2), BoxH, <<>>),
       Shp("text", 3, TRUE, K(2), RowTop, K(2), BoxH, <<>>)>>,
     <<Shp("chart", 2, TRUE, 0, RowTop, K(2), BoxH, <<>>),
       Shp("text", 3, TRUE, K(4), RowTop, K(2), BoxH, <<>>)>>}

MarkerParagraphs ==
    {Paragraph(<<PlainRun>>, "", 0, None, None, None, None),
     Marked(Paragraph(<<PlainRun>>, "", 0, None, None, None, None)),
     Marked(Paragraph(<<ScenarioRun>>, "", 1, Some("LEFT"), None, None, None))}

MarkerFrames ==
    {TextFrame(TRUE, ps) : ps \in UNION {[1..n -> MarkerParagraphs] : n \in 1..MaxParas}}

InitMarker ==
    /\ shapes \in MarkerSlides
    /\ slideW = K(SlideK)
    /\ pre = shapes /\ op = "load" /\ ret = 0
    /\ stage = "marker"
    /\ tf \in MarkerFrames
    /\ tfPre = tf /\ repl = <<>> /\ tfOp = "load"
    /\ mIn = NoMirror /\ mCur = 0 /\ mN = 0
    /\ InitNoTask /\ InitNoJob
    /\ InitNoArrow /\ InitNoClient

\* step 4: group_chart_elements(slide)
MarkerGroup ==
    /\ stage = "marker" /\ op = "load"
    /\ LET r == GroupChartElements(shapes)
       IN  shapes' = r[1] /\ ret' = r[2]
    /\ pre' = shapes
    /\ op' = "group"
    /\ UNCHANGED <<slideW, stage, mirrorVars, textVars, taskVars, jobVars, arrowVars, clientVars>>

\* step 5: flip_to_rtl_layout, both loops
MarkerMirror ==
    /\ stage = "marker" /\ op = "group"
    /\ shapes' = FlipToRtlLayout(shapes, slideW)
    /\ tf' = FlipToRtlLayoutText(shapes, tf)
    /\ pre' = shapes
    /\ op' = "mirror"
    /\ UNCHANGED <<slideW, ret, stage, tfPre, repl, tfOp, mirrorVars, taskVars, jobVars, arrowVars, clientVars>>

\* step 6: _replace_bullets on the text shape
MarkerBullets ==
    /\ stage = "marker" /\ op = "mirror" /\ tfOp = "load"
    /\ TextIsMapped(shapes)
    /\ \E n \in 0..MaxRepl :
        LET translations == SubSeq(Translations, 1, n)
        IN  /\ tf' = ReplaceBullets(tf, translations)
            /\ repl' = translations
    /\ tfPre' = tf
    /\ tfOp' = "bullets"
    /\ UNCHANGED <<slideW, shapes, pre, op, ret, stage, mirrorVars, taskVars, jobVars, arrowVars, clientVars>>

\* step 6: _replace_single_text on the text shape
MarkerSingleText ==
    /\ stage = "marker" /\ op = "mirror" /\ tfOp = "load"
    /\ TextIsMapped(shapes)
    /\ tf' = ReplaceSingleText(tf, Translations[1])
    /\ repl' = <<Translations[1]>>
    /\ tfPre' = tf
    /\ tfOp' = "single"
    /\ UNCHANGED <<slideW, shapes, pre, op, ret, stage, mirrorVars, taskVars, jobVars, arrowVars, clientVars>>

NextMarker == MarkerGroup \/ MarkerMirror \/ MarkerBullets \/ MarkerSingleText

SpecMarker == InitMarker /\ [][NextMarker]_vars

(***************************************************************************)
(* llm_translator.py and process_single_slide: one slide's task            *)
(***************************************************************************)
\* a translation value: a JSON string, or a JSON array of strings
Str(s) == [is_list |-> FALSE, items |-> <<s>>]
List(items) == [is_list |-> TRUE, items |-> items]

TranslationMissing == Str("[Translation missing]")
TranslationFailed == Str("[ERROR: Translation failed]")

\* a dict, as the function from its keys to its values
EmptyDict == [id \in {} |-> TranslationMissing]

\* an element of the slide structure, as extract_slide_structure appends it:
\* the counter names it, and it always carries text
Element(element_id, type) ==
    [element_id |-> element_id,
     type |-> type,
     text |-> IF type = "bullet_group" THEN "" ELSE "text",
     bullets |-> IF type = "bullet_group" THEN <<"item", "item">> ELSE <<>>]

ElementTypes == {"title", "bullet_group", "text_box"}

SlideStructure(slide_index, types) ==
    [slide_index |-> slide_index,
     elements |-> [i \in 1..Len(types) |-> Element(i - 1, types[i])]]

\* the ids translate_with_openai keeps: the elements with text or bullets
ElementsToTranslate(elements) ==
    {elements[i].element_id : i \in
        {j \in 1..Len(elements) :
            IF elements[j].type = "bullet_group"
            THEN elements[j].bullets # <<>>
            ELSE elements[j].text # ""}}

\* the service's answer to the one request:
\*   request_error  the request raised
\*   bad_json       the content is not JSON, or is absent
\*   not_dict       "translations" is not a JSON object
\*   no_key         a JSON object without "translations"
\*   dict           "translations" is a JSON object
Answer(kind, translations) == [kind |-> kind, translations |-> translations]
NoAnswer == Answer("none", EmptyDict)
Raises(r) == r.kind \in {"request_error", "bad_json", "not_dict"}

\* mutant: the answer is returned as it came
TranslateSlideBatchNoFill(elements, r) ==
    IF Raises(r)
    THEN [id \in elements |-> TranslationFailed]
    ELSE r.translations

\* mutant: a failed request yields no entries
TranslateSlideBatchDropOnError(elements, r) ==
    IF Raises(r)
    THEN EmptyDict
    ELSE [id \in (DOMAIN r.translations) \cup elements |->
            IF id \in DOMAIN r.translations
            THEN r.translations[id] ELSE TranslationMissing]

\* _translate_slide_batch_openai and _translate_slide_batch_gemini
TranslateSlideBatch(elements, r) ==
    IF Raises(r)
    THEN [id \in elements |-> TranslationFailed]
    ELSE LET translations == r.translations    \* result.get("translations", {})
             missing == elements \ DOMAIN translations
         IN  [id \in (DOMAIN translations) \cup missing |->
                IF id \in missing THEN TranslationMissing ELSE translations[id]]

\* translate_with_openai: the mapping it returns
TranslateWithOpenai(slide_structure, r) ==
    LET elements_to_translate == ElementsToTranslate(slide_structure.elements)
    IN  IF elements_to_translate = {}
        THEN EmptyDict
        ELSE TranslateSlideBatch(elements_to_translate, r)

\* translate_with_openai: the requests it sends
RequestsSent(slide_structure) ==
    IF ElementsToTranslate(slide_structure.elements) = {} THEN 0 ELSE 1

\* what a future holds: the returned record, or the exception
Returned(slide_idx, slide_structure, translations) ==
    [raised |-> FALSE, slide_idx |-> slide_idx,
     structure |-> slide_structure, translations |-> translations]
Raised(slide_idx) ==
    [raised |-> TRUE, slide_idx |-> slide_idx,
     structure |-> SlideStructure(slide_idx, <<>>), translations |-> EmptyDict]

\* process_single_slide: parse, then translate
ProcessSingleSlideResult(slide_idx, parsed, slide_structure, r) ==
    IF parsed
    THEN Returned(slide_idx, slide_structure, TranslateWithOpenai(slide_structure, r))
    ELSE Raised(slide_idx)

\* replace_text_in_slide: the replacement each element gets
ReplacementOf(element, translations) ==
    IF element.element_id \notin DOMAIN translations
    THEN "none"
    ELSE IF translations[element.element_id].is_list
         THEN "bullets"
         ELSE "single"

Replacements(slide_data) ==
    [i \in 1..Len(slide_data.structure.elements) |->
        ReplacementOf(slide_data.structure.elements[i], slide_data.translations)]

\* the inputs: every structure of up to MaxElems elements, and every answer
ExtraId == MaxElems + 1
Structures ==
    {SlideStructure(0, types) :
        types \in UNION {[1..n -> ElementTypes] : n \in 0..MaxElems}}
Values == {Str("translated"), List(<<"translated", "translated">>)}
Answers(slide_structure) ==
    {Answer(kind, EmptyDict) : kind \in {"request_error", "bad_json", "not_dict", "no_key"}}
    \cup {Answer("dict", t) :
            t \in UNION {[ids -> Values] :
                ids \in SUBSET (ElementsToTranslate(slide_structure.elements) \cup {ExtraId})}}

InitTask ==
    /\ structure \in Structures
    /\ reply = NoAnswer
    /\ slideData = Raised(0)
    /\ apiCalls = 0
    /\ replaced = <<>>
    /\ stage = "submitted"
    /\ slideW = 0 /\ shapes = <<>> /\ pre = <<>> /\ op = "load" /\ ret = 0
    /\ mIn = NoMirror /\ mCur = 0 /\ mN = 0
    /\ InitNoText
    /\ InitNoJob
    /\ InitNoArrow /\ InitNoClient

\* the worker thread runs process_single_slide to its return
ProcessSingleSlide ==
    /\ stage = "submitted"
    /\ \E r \in Answers(structure) :
        /\ reply' = IF RequestsSent(structure) = 0 THEN NoAnswer ELSE r
        /\ slideData' = ProcessSingleSlideResult(0, TRUE, structure, r)
    /\ apiCalls' = apiCalls + RequestsSent(structure)
    /\ stage' = "returned"
    /\ UNCHANGED <<structure, replaced>>
    /\ UNCHANGED <<slideW, shapes, pre, op, ret, mIn, mCur, mN, textVars, jobVars, arrowVars, clientVars>>

\* the worker thread's extract_slide_structure raises
ProcessSingleSlideRaises ==
    /\ stage = "submitted"
    /\ slideData' = ProcessSingleSlideResult(0, FALSE, structure, NoAnswer)
    /\ stage' = "raised"
    /\ UNCHANGED <<structure, reply, apiCalls, replaced>>
    /\ UNCHANGED <<slideW, shapes, pre, op, ret, mIn, mCur, mN, textVars, jobVars, arrowVars, clientVars>>

\* step 6 on the slide: replace_text_in_slide with the task's record
ReplaceTextInSlide ==
    /\ stage = "returned"
    /\ replaced' = Replacements(slideData)
    /\ stage' = "replaced"
    /\ UNCHANGED <<structure, reply, slideData, apiCalls>>
    /\ UNCHANGED <<slideW, shapes, pre, op, ret, mIn, mCur, mN, textVars, jobVars, arrowVars, clientVars>>

NextTask == ProcessSingleSlide \/ ProcessSingleSlideRaises \/ ReplaceTextInSlide

SpecTask == InitTask /\ [][NextTask]_vars

(***************************************************************************)
(* translate_all_slides: the thread pool and the stages of the job         *)
(***************************************************************************)
MaxWorkers == 5

\* the slides of the job, 0-based as slide_idx
SlideIdx == 0..(slideCount - 1)

\* what slide i parses to, and what the service answers for it
JobStructure(i) == SlideStructure(i, <<"text_box">>)
JobAnswers == {Answer("dict", [id \in {0} |-> Str("translated")])}

Running == {i \in SlideIdx : futures[i] = "running"}
Pending == {i \in SlideIdx : futures[i] = "pending"}
AllFinished == \A i \in SlideIdx : futures[i] = "finished"
Handed == {yielded[k] : k \in 1..Len(yielded)}

NoProgress == [grouping |-> 0, mirror |-> 0, fix |-> 0, replace |-> 0]

InitJob ==
    /\ slideCount \in 1..MaxSlides
    /\ futures = [i \in SlideIdx |-> "pending"]
    /\ results = [i \in SlideIdx |-> Raised(i)]
    /\ yielded = <<>>
    /\ all_slides_data = [i \in SlideIdx |-> None]
    /\ pc = "collect"
    /\ cursor = NoProgress
    /\ stage = "job"
    /\ slideW = 0 /\ shapes = <<>> /\ pre = <<>> /\ op = "load" /\ ret = 0
    /\ mIn = NoMirror /\ mCur = 0 /\ mN = 0
    /\ InitNoText
    /\ InitNoTask
    /\ InitNoArrow /\ InitNoClient

JobUnchanged ==
    UNCHANGED <<slideW, shapes, pre, op, ret, stage, mirrorVars, textVars, taskVars,
                arrowVars, clientVars>>

\* a free worker thread takes the next work item off the queue
StartTask ==
    /\ Pending # {}
    /\ Cardinality(Running) < Min2(slideCount, MaxWorkers)
    /\ futures' = [futures EXCEPT ![SetMin(Pending)] = "running"]
    /\ UNCHANGED <<slideCount, results, yielded, all_slides_data, pc, cursor>>
    /\ JobUnchanged

\* process_single_slide returns or raises; the future keeps the outcome
FinishTask ==
    /\ \E i \in Running, parsed \in BOOLEAN, r \in JobAnswers :
        /\ futures' = [futures EXCEPT ![i] = "finished"]
        /\ results' = [results EXCEPT
                         ![i] = ProcessSingleSlideResult(i, parsed, JobStructure(i), r)]
    /\ UNCHANGED <<slideCount, yielded, all_slides_data, pc, cursor>>
    /\ JobUnchanged

\* mutant: the record is stored in completion order
StoredInCompletionOrder(data, slide_data, position) ==
    [data EXCEPT ![position] = Some(slide_data)]

\* all_slides_data[slide_idx] = slide_data, for the position-th future handed over
Stored(data, slide_data, position) ==
    [data EXCEPT ![slide_data.slide_idx] = Some(slide_data)]

\* mutant: the stages start after the first future
AfterCollectFirst(handed, slide_count) == "grouping"

\* the as_completed loop ends when every future was handed over
AfterCollect(handed, slide_count) ==
    IF Len(handed) = slide_count THEN "grouping" ELSE "collect"

\* one turn of the as_completed loop: future.result(), then the store
Collect ==
    /\ pc = "collect"
    /\ \E i \in SlideIdx \ Handed :
        /\ futures[i] = "finished"
        /\ yielded' = Append(yielded, i)
        /\ IF results[i].raised
           THEN /\ pc' = "raising"
                /\ UNCHANGED all_slides_data
           ELSE /\ all_slides_data' = Stored(all_slides_data, results[i], Len(yielded))
                /\ pc' = AfterCollect(yielded', slideCount)
    /\ UNCHANGED <<slideCount, futures, results, cursor>>
    /\ JobUnchanged

\* the exception leaves the with block: shutdown(wait=True), then it
\* propagates out of translate_all_slides
Propagate ==
    /\ pc = "raising"
    /\ AllFinished
    /\ pc' = "failed"
    /\ UNCHANGED <<slideCount, futures, results, yielded, all_slides_data, cursor>>
    /\ JobUnchanged

\* what follows a stage
NextStage(s) ==
    CASE s = "grouping" -> "mirror"
      [] s = "mirror" -> "fix"
      [] s = "fix" -> "replace"
      [] s = "replace" -> "done"

\* a stage has handled one more slide; after the last one the next stage begins
Advanced(progress, s) == [progress EXCEPT ![s] = progress[s] + 1]
AfterSlide(progress, s, slide_count) ==
    IF progress[s] + 1 = slide_count THEN NextStage(s) ELSE s

\* step 4: group_chart_elements(slide), one slide of the loop
GroupSlide ==
    /\ pc = "grouping"
    /\ cursor' = Advanced(cursor, "grouping")
    /\ pc' = AfterSlide(cursor, "grouping", slideCount)
    /\ UNCHANGED <<slideCount, futures, results, yielded, all_slides_data>>
    /\ JobUnchanged

\* step 5: flip_to_rtl_layout, one slide of its loop
MirrorSlide ==
    /\ pc = "mirror"
    /\ cursor' = Advanced(cursor, "mirror")
    /\ pc' = AfterSlide(cursor, "mirror", slideCount)
    /\ UNCHANGED <<slideCount, futures, results, yielded, all_slides_data>>
    /\ JobUnchanged

\* step 5.5: fix_chart_collisions_option_c, one slide of its loops
FixSlide ==
    /\ pc = "fix"
    /\ cursor' = Advanced(cursor, "fix")
    /\ pc' = AfterSlide(cursor, "fix", slideCount)
    /\ UNCHANGED <<slideCount, futures, results, yielded, all_slides_data>>
    /\ JobUnchanged

\* step 6: replace_text_in_slide with all_slides_data[slide_idx]
ReplaceSlide ==
    /\ pc = "replace"
    /\ IF all_slides_data[cursor.replace] = None
       THEN /\ pc' = "failed"
            /\ UNCHANGED cursor
       ELSE /\ cursor' = Advanced(cursor, "replace")
            /\ pc' = AfterSlide(cursor, "replace", slideCount)
    /\ UNCHANGED <<slideCount, futures, results, yielded, all_slides_data>>
    /\ JobUnchanged

NextJob ==
    \/ StartTask \/ FinishTask \/ Collect \/ Propagate
    \/ GroupSlide \/ MirrorSlide \/ FixSlide \/ ReplaceSlide

SpecJob == InitJob /\ [][NextJob]_vars

(***************************************************************************)
(* rtl_converter.py: _flip_shape_position on a named shape of a slide      *)
(* without charts, and _flip_shape_horizontally.  A name is the sequence   *)
(* of its characters; a rotation is a whole number of degrees.             *)
(***************************************************************************)
AngleStep == 45

\* needle in name, as Python's `in` on strings
In(needle, name) ==
    \E i \in 1..(Len(name) - Len(needle) + 1) :
        SubSeq(name, i, i + Len(needle) - 1) = needle

\* mutant: the rotation is left as it is
FlipShapeHorizontallyKeep(shape) == shape

FlipShapeHorizontally(shape) ==
    LET current_rotation == shape.rotation
        new_rotation == (180 - current_rotation) % 360
    IN  [shape EXCEPT !.rotation = new_rotation]

FlipNamedShapePosition(shape, slide_width) ==
    IF shape.shape_type = "CHART" THEN shape
    ELSE LET moved == [shape EXCEPT
                          !.left = MirrorLeft(shape.left, shape.width, slide_width)]
         IN  IF /\ shape.shape_type = "AUTO_SHAPE"
                /\ \/ In(<<"A", "r", "r", "o", "w">>, shape.name)
                   \/ In(<<"a", "r", "r", "o", "w">>, shape.name)
             THEN FlipShapeHorizontally(moved)
             ELSE moved

ShapeNames ==
    {<<"R", "i", "g", "h", "t", " ", "A", "r", "r", "o", "w", " ", "5">>,
     <<"a", "r", "r", "o", "w", "1">>,
     <<"A", "R", "R", "O", "W">>,
     <<"U", "p", "a", "R", "r", "o", "w">>,
     <<"O", "v", "a", "l", " ", "2">>,
     <<"N", "a", "r", "r", "o", "w">>,
     <<"R", "o", "w">>}

ShapeTypes == {"AUTO_SHAPE", "FREEFORM", "PICTURE", "LINE", "CHART"}

Angles == {a \in 0..359 : a % AngleStep = 0} \cup {1, 359}

NamedShape(name, shape_type, rotation, left, width) ==
    [name |-> name, shape_type |-> shape_type, rotation |-> rotation,
     left |-> left, width |-> width]

InitArrow ==
    /\ \E name \in ShapeNames, shape_type \in ShapeTypes, rotation \in Angles :
           arrow = NamedShape(name, shape_type, rotation, K(1), K(2))
    /\ arrowPre = arrow
    /\ slideW = K(SlideK)
    /\ shapes = <<>> /\ pre = <<>> /\ op = "load" /\ ret = 0
    /\ stage = "arrow"
    /\ mIn = NoMirror /\ mCur = 0 /\ mN = 0
    /\ InitNoText /\ InitNoTask /\ InitNoJob /\ InitNoClient

FlipArrow ==
    /\ stage = "arrow"
    /\ op = "load"
    /\ arrow' = FlipNamedShapePosition(arrow, slideW)
    /\ arrowPre' = arrow
    /\ op' = "flip"
    /\ UNCHANGED <<slideW, shapes, pre, ret, stage, mirrorVars, textVars, taskVars,
                   jobVars, clientVars>>

NextArrow == FlipArrow

SpecArrow == InitArrow /\ [][NextArrow]_vars

(***************************************************************************)
(* slide_parser.py: extract_slide_structure, and text_replacer.py:         *)
(* replace_text_in_slide's shape map.  Both walk slide.shapes depth-first  *)
(* and give the n-th shape with text the element id shape_n; here an       *)
(* element id is its number n, and every text shape of a slide has text.   *)
(***************************************************************************)
\* the shapes with text of a subtree, in the order the walk meets them
RECURSIVE WalkShapes(_)
WalkShapes(list) ==
    IF list = <<>> THEN <<>>
    ELSE LET shape == Head(list)
         IN  (IF IsGroup(shape) THEN WalkShapes(shape.kids)
              ELSE IF HasTextFrame(shape) THEN <<shape.id>>
              ELSE <<>>) \o WalkShapes(Tail(list))

\* structure["elements"]: element number n - 1 |-> the shape it was read from
ExtractSlideStructure(tree) ==
    LET found == WalkShapes(tree)
    IN  [n \in 0..(Len(found) - 1) |-> found[n + 1]]

\* shape_map: element number |-> the shape the translation is written into
ShapeMap(tree) ==
    LET found == WalkShapes(tree)
    IN  [n \in 0..(Len(found) - 1) |-> found[n + 1]]

(***************************************************************************)
(* llm_translator.py: get_openai_client, called by the slide tasks that    *)
(* the worker pool of translate_all_slides runs concurrently.  The global  *)
(* _openai_client is 0 for None, otherwise the number of the OpenAI object *)
(* it refers to; the test and the assignment are separate steps of a       *)
(* thread, with no lock between them.                                      *)
(***************************************************************************)
MaxTasks == 3

Tasks == DOMAIN tpc
InTranslator == {t \in Tasks : tpc[t] \in {"test", "construct", "return"}}

InitClient ==
    /\ \E n \in 1..MaxTasks :
           /\ tpc = [t \in 1..n |-> "queued"]
           /\ used = [t \in 1..n |-> 0]
    /\ openai_client = 0
    /\ constructed = 0
    /\ stage = "client"
    /\ slideW = 0 /\ shapes = <<>> /\ pre = <<>> /\ op = "load" /\ ret = 0
    /\ mIn = NoMirror /\ mCur = 0 /\ mN = 0
    /\ InitNoText /\ InitNoTask /\ InitNoJob /\ InitNoArrow

ClientUnchanged ==
    UNCHANGED <<slideW, shapes, pre, op, ret, stage, mirrorVars, textVars, taskVars,
                jobVars, arrowVars>>

\* a worker thread runs a slide task up to its call of get_openai_client()
CallGetClient ==
    /\ stage = "client"
    /\ \E t \in Tasks :
           /\ tpc[t] = "queued"
           /\ Cardinality(InTranslator) < Min2(Len(tpc), MaxWorkers)
           /\ tpc' = [tpc EXCEPT ![t] = "test"]
    /\ UNCHANGED <<openai_client, constructed, used>>
    /\ ClientUnchanged

\* if _openai_client is None:
TestNone ==
    /\ \E t \in Tasks :
           /\ tpc[t] = "test"
           /\ tpc' = [tpc EXCEPT ![t] = IF openai_client = 0 THEN "construct"
                                         ELSE "return"]
    /\ UNCHANGED <<openai_client, constructed, used>>
    /\ ClientUnchanged

\* _openai_client = OpenAI(api_key=...)
ConstructClient ==
    /\ \E t \in Tasks :
           /\ tpc[t] = "construct"
           /\ tpc' = [tpc EXCEPT ![t] = "return"]
    /\ constructed' = constructed + 1
    /\ openai_client' = constructed + 1
    /\ UNCHANGED used
    /\ ClientUnchanged

\* return _openai_client
ReturnClient ==
    /\ \E t \in Tasks :
           /\ tpc[t] = "return"
           /\ tpc' = [tpc EXCEPT ![t] = "done"]
           /\ used' = [used EXCEPT ![t] = openai_client]
    /\ UNCHANGED <<openai_client, constructed>>
    /\ ClientUnchanged

NextClient == CallGetClient \/ TestNone \/ ConstructClient \/ ReturnClient

SpecClient == InitClient /\ [][NextClient]_vars

(***************************************************************************)
(* Geometry used to state the properties                                   *)
(***************************************************************************)
Right(s) == s.left + s.width
Bottom(s) == s.top + s.height

\* open-interval overlap of two absolute boxes: touching edges do not overlap
Overlap(a, b) ==
    /\ a.left < Right(b) /\ Right(a) > b.left
    /\ a.top < Bottom(b) /\ Bottom(a) > b.top

\* the groups the last group_chart_elements call appended
NewGroups(tree, n) == SubSeq(tree, Len(tree) - n + 1, Len(tree))
KidIds(g) == {g.kids[k].id : k \in 1..Len(g.kids)}
MemberIds(groups) == UNION {KidIds(groups[i]) : i \in 1..Len(groups)}
\* the original top-level shapes a group was made of
Originals(tree, g) == {i \in 1..Len(tree) : tree[i].id \in KidIds(g) /\ ~IsGroup(tree[i])}
\* a group made by group_chart_elements: the input's groups have one child
IsCreatedGroup(s) == IsGroup(s) /\ Len(s.kids) >= 2

(***************************************************************************)
(* C1: mirror is an involution on valid inputs: with 0 <= left and         *)
(* left + width <= W, mirroring twice gives back the original left.        *)
(***************************************************************************)
ValidMirrorInput(in) == 0 <= in[1] /\ in[2] >= 0 /\ in[1] + in[2] <= in[3]

C1_MirrorInvolution ==
    (stage = "arith" /\ ValidMirrorInput(mIn) /\ mN = 2) => mCur = mIn[1]

C1_Witness ==
    /\ stage = "arith" /\ ValidMirrorInput(mIn) /\ mN = 2
    /\ mIn[2] > 0
    /\ mIn[1] # mIn[3] - (mIn[1] + mIn[2])

(***************************************************************************)
(* C2: the mirror transform changes no shape's width or height, whether    *)
(* the shape is mirrored or skipped (top-level shapes and group children). *)
(***************************************************************************)
SameSize(a, b) == a.xfrm = b.xfrm /\ a.width = b.width /\ a.height = b.height

C2_MirrorKeepsSize ==
    op = "mirror" =>
        /\ Len(shapes) = Len(pre)
        /\ \A i \in 1..Len(shapes) :
              /\ SameSize(shapes[i], pre[i])
              /\ Len(shapes[i].kids) = Len(pre[i].kids)
              /\ \A k \in 1..Len(shapes[i].kids) :
                    SameSize(shapes[i].kids[k], pre[i].kids[k])

\* a slide where one text box was mirrored and another, near a chart, skipped
C2_Witness ==
    /\ op = "mirror"
    /\ \E i \in 1..Len(shapes) :
          shapes[i].kind = "text" /\ shapes[i].left # pre[i].left
          /\ shapes[i].width # shapes[i].height
    /\ \E j \in 1..Len(shapes) :
          /\ shapes[j].kind = "text" /\ shapes[j].xfrm
          /\ IsNearChart(pre[j], ChartRegions(pre))
          /\ shapes[j] = pre[j]
          /\ pre[j].left # MirrorLeft(pre[j].left, pre[j].width, slideW)

(***************************************************************************)
(* C3: the mirror transform leaves Left and Top of every chart as they     *)
(* were (a top-level chart, and the stored offset of a chart in a group).  *)
(***************************************************************************)
SameOffset(a, b) == a.xfrm = b.xfrm /\ a.left = b.left /\ a.top = b.top

C3_MirrorKeepsCharts ==
    op = "mirror" =>
        \A i \in 1..Len(pre) :
            /\ IsChart(pre[i]) => (IsChart(shapes[i]) /\ SameOffset(shapes[i], pre[i]))
            /\ \A k \in 1..Len(pre[i].kids) :
                  IsChart(pre[i].kids[k]) =>
                      SameOffset(shapes[i].kids[k], pre[i].kids[k])

\* a top-level chart whose mirrored position would differ, beside a shape
\* that did move
C3_Witness ==
    /\ op = "mirror"
    /\ \E i \in 1..Len(pre) :
          /\ IsChart(pre[i])
          /\ pre[i].left # MirrorLeft(pre[i].left, pre[i].width, slideW)
    /\ \E j \in 1..Len(pre) : shapes[j].left # pre[j].left

(***************************************************************************)
(* C4 as stated: grouping a chart with N associated shapes leaves          *)
(* count_before - N + 1 top-level shapes (N removed, one group added).     *)
(* Summed over the groups one call creates.                                *)
(***************************************************************************)
AssociatedCount(groups) == SeqSum([i \in 1..Len(groups) |-> Len(groups[i].kids) - 1])

C4_CountAsStated ==
    op = "group" =>
        Len(shapes) = Len(pre) - AssociatedCount(NewGroups(shapes, ret)) + ret

(***************************************************************************)
(* C4 amended: the chart moves into the group with its N associated        *)
(* shapes, so N + 1 shapes leave the top level and one group is appended:  *)
(* count_after = count_before - N.  The other top-level shapes stay, in    *)
(* their order and unchanged, and the new groups follow them.              *)
(***************************************************************************)
C4_GroupCount ==
    op = "group" =>
        LET groups == NewGroups(shapes, ret)
            members == MemberIds(groups)
        IN  /\ ret <= Len(shapes)
            /\ \A i \in 1..Len(groups) :
                  /\ IsGroup(groups[i])
                  /\ Len(groups[i].kids) >= 2
                  /\ IsChart(groups[i].kids[1])
                  /\ \A k \in 2..Len(groups[i].kids) : ~IsChart(groups[i].kids[k])
            /\ Len(shapes) = Len(pre) - (AssociatedCount(groups) + ret) + ret
            /\ SubSeq(shapes, 1, Len(shapes) - ret)
                  = SelectSeq(pre, LAMBDA s : IsGroup(s) \/ s.id \notin members)

\* one group made of a chart and one shape, beside a shape that stays
C4_Witness ==
    /\ op = "group" /\ ret = 1
    /\ Len(pre) = 3 /\ Len(shapes) = 2
    /\ Len(shapes[2].kids) = 2

(***************************************************************************)
(* C5: a created group's absolute box is the union bounding box of the     *)
(* original absolute boxes of the chart and its associated shapes, its     *)
(* child offset is (0,0) and its child extent is (Width, Height).          *)
(***************************************************************************)
C5_GroupBoxIsUnion ==
    op = "group" =>
        \A i \in 1..Len(shapes) :
            (i > Len(shapes) - ret) =>
                LET g == shapes[i]
                    orig == Originals(pre, g)
                IN  /\ Cardinality(orig) = Len(g.kids)
                    /\ g.xfrm
                    /\ g.left = SetMin({pre[m].left : m \in orig})
                    /\ g.top = SetMin({pre[m].top : m \in orig})
                    /\ Right(g) = SetMax({Right(pre[m]) : m \in orig})
                    /\ Bottom(g) = SetMax({Bottom(pre[m]) : m \in orig})
                    /\ g.chOff = <<0, 0>>
                    /\ g.chExt = <<g.width, g.height>>

\* a group away from the slide's origin and wider than its chart
C5_Witness ==
    /\ op = "group" /\ ret >= 1
    /\ LET g == shapes[Len(shapes)]
       IN  /\ g.left > 0
           /\ g.width > g.kids[1].width
           /\ Len(g.kids) = 3

(***************************************************************************)
(* C6: a second group_chart_elements call on a slide the first call has    *)
(* processed creates no group and leaves the shape tree as it is.          *)
(***************************************************************************)
C6_GroupingIdempotent ==
    op = "regroup" => (ret = 0 /\ shapes = pre)

\* the second call ran on a slide with a created group and a chart that is
\* still top-level
C6_Witness ==
    /\ op = "regroup"
    /\ \E i \in 1..Len(pre) : IsCreatedGroup(pre[i])
    /\ \E j \in 1..Len(pre) : IsChart(pre[j])

(***************************************************************************)
(* C7 as stated: a collision pass (the chart shift or the group-vs-group   *)
(* adjustment) makes no pair of shapes overlap that did not overlap before.*)
(***************************************************************************)
NoNewOverlap(before, after) ==
    \A i, j \in 1..Len(before) :
        (i < j /\ before[i].xfrm /\ before[j].xfrm /\ ~Overlap(before[i], before[j]))
            => ~Overlap(after[i], after[j])

C7_NoNewOverlap ==
    op \in {"fix", "adjust"} => NoNewOverlap(pre, shapes)

(***************************************************************************)
(* C9 as stated: after grouping and mirroring, a created group's Left is   *)
(* slideWidth - (originalGroupLeft + groupWidth).                          *)
(***************************************************************************)
C9_GroupMirrorAsStated ==
    op = "mirror" =>
        \A i \in 1..Len(pre) :
            IsCreatedGroup(pre[i]) =>
                shapes[i].left = slideW - (pre[i].left + pre[i].width)

(***************************************************************************)
(* C9 amended: the created group's Left is that value clamped into         *)
(* [0, slideWidth - groupWidth] (raised to 0, then lowered to              *)
(* slideWidth - groupWidth); it is exactly slideWidth - (left + width)     *)
(* when the group's box lies within the slide, and 1644000 in the scenario *)
(* of the chart at 3000000 and the caption at 6000000.                     *)
(***************************************************************************)
Clamped(x, lo, hi) == IF (IF x < lo THEN lo ELSE x) > hi THEN hi ELSE (IF x < lo THEN lo ELSE x)

C9_GroupMirror ==
    op = "mirror" =>
        /\ \A i \in 1..Len(pre) :
              IsCreatedGroup(pre[i]) =>
                  LET mirrored == slideW - (pre[i].left + pre[i].width)
                  IN  /\ shapes[i].left = Clamped(mirrored, 0, slideW - pre[i].width)
                      /\ (0 <= pre[i].left /\ pre[i].left + pre[i].width <= slideW)
                            => shapes[i].left = mirrored
        /\ slideW = ScenarioW =>
              /\ Len(shapes) = 1
              /\ IsCreatedGroup(shapes[1])
              /\ pre[1].left = 3000000 /\ pre[1].width = 4500000
              /\ shapes[1].left = 1644000

\* the scenario slide, grouped and mirrored
C9_Witness ==
    /\ op = "mirror" /\ slideW = ScenarioW
    /\ IsCreatedGroup(shapes[1])
    /\ shapes[1].left # pre[1].left

(***************************************************************************)
(* C8 as stated: after _replace_bullets the text frame has exactly as many *)
(* paragraphs as there are replacement strings, and after                  *)
(* _replace_single_text exactly one.                                       *)
(***************************************************************************)
C8_ParagraphCount ==
    /\ tfOp = "bullets" => Len(tf.paragraphs) = Len(repl)
    /\ tfOp = "single" => Len(tf.paragraphs) = 1

(***************************************************************************)
(* C10 as stated: a text shape whose text is Calibri, 18pt, C0C0C0, bold,  *)
(* replaced with 2 bullets, has 2 paragraphs, each bold, Arial, 16.2pt     *)
(* (205740) and black; and in general every output paragraph carries the   *)
(* snapshotted bold, italic and underline, the fixed family, the 90% size  *)
(* and the gray-promoted-to-black colour.                                  *)
(***************************************************************************)
IsScenarioText(frame) ==
    \A i \in 1..Len(frame.paragraphs) : frame.paragraphs[i].runs = <<ScenarioRun>>

IsScenarioOutput(p) ==
    /\ Len(p.runs) = 1
    /\ p.runs[1].bold = Some(TRUE)
    /\ p.runs[1].font_name = Some("Arial")
    /\ p.runs[1].font_size = Some(205740)
    /\ p.runs[1].color = Some(Black)

\* output paragraph p carries the snapshot taken from original paragraph o
Carries(p, o) ==
    /\ Len(p.runs) = 1
    /\ p.runs[1].bold = o.runs[1].bold
    /\ p.runs[1].italic = o.runs[1].italic
    /\ p.runs[1].underline = o.runs[1].underline
    /\ p.runs[1].font_name = Some("Arial")
    /\ o.runs[1].font_size # None =>
           p.runs[1].font_size = Some(ScaledSize(o.runs[1].font_size[1]))
    /\ o.runs[1].color # None =>
           p.runs[1].color = Some(FontColor(o.runs[1].color[1]))

C10_FormattingAsStated ==
    /\ (tfOp = "bullets" /\ IsScenarioText(tfPre) /\ Len(repl) = 2) =>
           /\ Len(tf.paragraphs) = 2
           /\ \A i \in 1..Len(tf.paragraphs) : IsScenarioOutput(tf.paragraphs[i])
    /\ (tfOp = "bullets"
            /\ \A i \in 1..Len(tfPre.paragraphs) :
                   HasText(tfPre.paragraphs[i]) /\ tfPre.paragraphs[i].runs # <<>>) =>
           \A i \in 1..Len(tf.paragraphs) :
               i <= Len(tfPre.paragraphs) => Carries(tf.paragraphs[i], tfPre.paragraphs[i])

(***************************************************************************)
(* C11: when the translation service answers with entries for only some of *)
(* the requested element ids, the mapping the task gets back has every     *)
(* requested id as a key, each missing id mapped to the placeholder        *)
(* string; the task returns instead of raising, one request was sent, and  *)
(* the replacement stage gives every element a replacement, the missing    *)
(* ones as single text.                                                    *)
(***************************************************************************)
Requested == ElementsToTranslate(structure.elements)
Answered == DOMAIN reply.translations
PartialAnswer ==
    /\ stage \in {"returned", "replaced"}
    /\ reply.kind = "dict"
    /\ Requested \ Answered # {}
    /\ Requested \cap Answered # {}

C11_MissingIdsGetPlaceholder ==
    PartialAnswer =>
        /\ ~slideData.raised
        /\ Requested \subseteq DOMAIN slideData.translations
        /\ \A id \in Requested \ Answered :
               slideData.translations[id] = TranslationMissing
        /\ \A id \in Requested \cap Answered :
               slideData.translations[id] = reply.translations[id]
        /\ apiCalls = 1
        /\ stage = "replaced" =>
               \A i \in 1..Len(replaced) :
                   /\ replaced[i] # "none"
                   /\ structure.elements[i].element_id \notin Answered =>
                          replaced[i] = "single"

\* the scenario: 4 ids requested, 3 answered, the slide's text replaced
C11_Witness ==
    /\ PartialAnswer
    /\ stage = "replaced"
    /\ Cardinality(Requested) = 4
    /\ Cardinality(Requested \cap Answered) = 3
    /\ \E id \in Requested : slideData.translations[id] = TranslationMissing

(***************************************************************************)
(* C12: when the request raises or its response cannot be parsed, the      *)
(* mapping the task gets back has exactly the requested ids as keys, each  *)
(* mapped to the failure marker, and the task returns instead of raising.  *)
(***************************************************************************)
WholesaleFailure ==
    /\ stage \in {"returned", "replaced"}
    /\ Raises(reply)

C12_FailureMarkerForEveryId ==
    WholesaleFailure =>
        /\ ~slideData.raised
        /\ DOMAIN slideData.translations = Requested
        /\ \A id \in Requested : slideData.translations[id] = TranslationFailed
        /\ stage = "replaced" =>
               \A i \in 1..Len(replaced) : replaced[i] = "single"

\* a failed request for a slide with elements, the slide's text replaced
C12_Witness ==
    /\ WholesaleFailure
    /\ stage = "replaced"
    /\ Requested # {}
    /\ \A id \in Requested : slideData.translations[id] = TranslationFailed

(***************************************************************************)
(* C13 as stated: an exception in one slide's task does not abort the job: *)
(* the main thread neither re-raises it nor fails, and once every task has *)
(* finished the records of the slides that returned are all collected.     *)
(***************************************************************************)
TaskRaised == \E i \in SlideIdx : futures[i] = "finished" /\ results[i].raised

C13_TaskFailureIsolated ==
    (stage = "job" /\ TaskRaised) =>
        /\ pc \notin {"raising", "failed"}
        /\ (AllFinished /\ pc # "collect") =>
               \A i \in SlideIdx :
                   ~results[i].raised => all_slides_data[i] = Some(results[i])

(***************************************************************************)
(* C14: at most min(slideCount, 5) tasks run at once, and for every order  *)
(* in which the futures complete and are handed over, once the parallel    *)
(* phase is over all_slides_data[i] is the record of slide i, for every    *)
(* slide index i: none missing, none stored twice, none swapped.           *)
(***************************************************************************)
AfterParallel == {"grouping", "mirror", "fix", "replace", "done"}

C14_IndexAddressed ==
    stage = "job" =>
        /\ Cardinality(Running) <= Min2(slideCount, MaxWorkers)
        /\ pc \in AfterParallel =>
               \A i \in SlideIdx :
                   /\ all_slides_data[i] = Some(results[i])
                   /\ ~results[i].raised
                   /\ results[i].slide_idx = i
                   /\ results[i].structure = JobStructure(i)

\* more slides than workers, the last slide handed over first, phase over
C14_Witness ==
    /\ stage = "job"
    /\ pc = "grouping"
    /\ slideCount > MaxWorkers
    /\ yielded[1] # 0
    /\ yielded[slideCount] = 0
    /\ all_slides_data[0] = Some(results[0])

(***************************************************************************)
(* C15: no structural stage starts before every parallel task has finished *)
(* and was collected, and the stages run in the order grouping, mirror,    *)
(* collision fix, text replacement: a stage has handled no slide before    *)
(* the stage in front of it has handled every slide.                       *)
(***************************************************************************)
Began(s) == pc = s \/ cursor[s] > 0
Complete(s) == cursor[s] = slideCount /\ pc # s

C15_StagesSequential ==
    stage = "job" =>
        /\ (Began("grouping") \/ pc = "done") =>
               AllFinished /\ Len(yielded) = slideCount
        /\ Began("mirror") => Complete("grouping")
        /\ Began("fix") => Complete("mirror")
        /\ Began("replace") => Complete("fix")
        /\ pc = "done" => Complete("replace")

\* a job of several slides, its text replacement under way
C15_Witness ==
    /\ stage = "job"
    /\ slideCount > 1
    /\ pc = "replace"
    /\ cursor.replace = 1

(***************************************************************************)
(* C16 as stated: after the mirror stage and text replacement, no          *)
(* paragraph of a shape whose text was replaced has the rtl attribute set, *)
(* whether the shape is top-level or inside a group and whatever the input *)
(* paragraphs carried.                                                     *)
(***************************************************************************)
TextReplaced == stage = "marker" /\ tfOp \in {"bullets", "single"}

C16_RtlAlwaysCleared ==
    TextReplaced => \A i \in 1..Len(tf.paragraphs) : ~tf.paragraphs[i].rtl

(***************************************************************************)
(* C17 as stated: a structural stage (grouping, mirror, chart collision    *)
(* fix, group adjustment) that starts with every top-level shape inside    *)
(* the slide, 0 <= left and left + width <= slide width, ends with every   *)
(* top-level shape inside the slide, and with no shape dropped.            *)
(***************************************************************************)
WithinSlide(tree) ==
    \A i \in 1..Len(tree) :
        tree[i].xfrm => (0 <= tree[i].left /\ Right(tree[i]) <= slideW)

\* the shapes that are not groups, at the top level or inside a group
LeafIds(tree) ==
    {tree[i].id : i \in {j \in 1..Len(tree) : ~IsGroup(tree[j])}}
    \cup UNION {KidIds(tree[i]) : i \in {j \in 1..Len(tree) : IsGroup(tree[j])}}

C17_StagesKeepShapesWithinSlide ==
    (op \in {"group", "mirror", "fix", "adjust"} /\ WithinSlide(pre)) =>
        /\ WithinSlide(shapes)
        /\ LeafIds(shapes) = LeafIds(pre)

(***************************************************************************)
(* C18: grouping associates a shape that is not a chart, not a group and   *)
(* not a title placeholder with at most one chart: with none when its      *)
(* distance to every chart is positive, and otherwise with the first chart *)
(* in slide shape order at distance 0; no other shape is associated.  An   *)
(* associated shape ends up in the group of its chart, an unassociated one *)
(* stays at the top level.                                                 *)
(***************************************************************************)
\* the charts of tree at distance 0 from s, as positions in charts_found
Touching(s, charts) ==
    {k \in 1..Len(charts) : DistanceToChart(s, charts[k]) = Zero}

Eligible(s) == ~IsChart(s) /\ ~IsGroup(s) /\ ~IsTitlePlaceholder(s)

\* s and chart c are children of one group of tree
GroupedWith(tree, s, c) ==
    \E i \in 1..Len(tree) :
        IsGroup(tree[i]) /\ s.id \in KidIds(tree[i]) /\ c.id \in KidIds(tree[i])

TopLevel(tree, s) == \E i \in 1..Len(tree) : tree[i].id = s.id

C18_AssociationIsFirstTouchingChart ==
    op = "group" =>
        LET charts == ChartsFound(pre)
            map == ShapeToNearestChart(pre, charts)
        IN  \A i \in 1..Len(pre) :
                LET s == pre[i]
                IN  IF Eligible(s) /\ Touching(s, charts) # {}
                    THEN /\ s.id \in DOMAIN map
                         /\ map[s.id] = SetMin(Touching(s, charts))
                         /\ \A k \in 1..Len(charts) :
                                GroupedWith(shapes, s, charts[k]) <=> k = map[s.id]
                    ELSE /\ s.id \notin DOMAIN map
                         /\ Eligible(s) => TopLevel(shapes, s)

\* a shape touching two charts, grouped with the first of them
C18_Witness ==
    /\ op = "group"
    /\ \E i \in 1..Len(pre) :
          /\ Eligible(pre[i])
          /\ Cardinality(Touching(pre[i], ChartsFound(pre))) = 2
          /\ GroupedWith(shapes, pre[i], ChartsFound(pre)[1])
          /\ ~GroupedWith(shapes, pre[i], ChartsFound(pre)[2])

(***************************************************************************)
(* C19 as stated: the mirror leaves Left unchanged for every positioned    *)
(* shape that is not a chart and not a group and whose bounding box is     *)
(* within the proximity radius of the bounding box of some chart, and      *)
(* mirrors every other positioned shape that is not a chart.               *)
(***************************************************************************)
WithinProximity(s, tree) ==
    \E j \in 1..Len(tree) :
        /\ IsChart(tree[j]) /\ tree[j].xfrm
        /\ IsLessEq(DistanceToChart(s, tree[j]), Square(Proximity))

C19_MirrorSkipsShapesNearCharts ==
    op = "mirror" =>
        \A i \in 1..Len(pre) :
            (~IsChart(pre[i]) /\ pre[i].xfrm) =>
                IF ~IsGroup(pre[i]) /\ WithinProximity(pre[i], pre)
                THEN shapes[i].left = pre[i].left
                ELSE shapes[i].left = MirrorLeft(pre[i].left, pre[i].width, slideW)

(***************************************************************************)
(* C20: the collision fix gives a chart group that collides with another   *)
(* group a new Left chosen from leftOption = otherLeft - chartWidth -      *)
(* minSpacing (valid iff >= 0) and rightOption = otherRight + minSpacing   *)
(* (always valid): the option with the smaller absolute shift when both    *)
(* are valid, the valid one when one is, slideWidth - chartWidth when      *)
(* neither is.  The last collision found for a chart group decides; a      *)
(* group without a collision keeps its Left.                               *)
(***************************************************************************)
Selected(chartLeft, chartWidth, otherLeft, otherRight, slideWidth) ==
    LET leftOption == otherLeft - chartWidth - MinSpacing
        rightOption == otherRight + MinSpacing
        leftValid == leftOption >= 0
        rightValid == TRUE
        leftShift == Abs(leftOption - chartLeft)
        rightShift == Abs(rightOption - chartLeft)
    IN  IF leftValid /\ rightValid
        THEN {x \in {leftOption, rightOption} :
                \/ x = leftOption /\ leftShift <= rightShift
                \/ x = rightOption /\ rightShift <= leftShift}
        ELSE IF leftValid THEN {leftOption}
        ELSE IF rightValid THEN {rightOption}
        ELSE {slideWidth - chartWidth}

\* the collisions found for the group at position i, as positions in the list
CollisionsOf(collisions, i) ==
    {k \in 1..Len(collisions) : collisions[k].chart_group.shape = i}

ChartUnit(s) == IsChart(s) \/ (IsGroup(s) /\ ContainsChart(s))

OverlappingPair(tree, i, j) ==
    /\ i # j
    /\ ChartUnit(tree[i]) /\ ~ChartUnit(tree[j])
    /\ tree[i].xfrm /\ tree[j].xfrm
    /\ Overlap(tree[i], tree[j])

C21_OverlapsResolved ==
    op = "fix" =>
        \A i, j \in 1..Len(pre) :
            OverlappingPair(pre, i, j) => ~Overlap(shapes[i], shapes[j])

(***************************************************************************)
(* C22: _adjust_overlapping_groups on a slide with two or more groups.     *)
(* The groups are taken in ascending order of Left; each adjacent pair of  *)
(* that order is a collision only if its horizontal gap is below           *)
(* MinSpacing and its vertical intervals overlap; then the right-hand      *)
(* group moves right by the shortfall if it stays within the slide width,  *)
(* otherwise the left-hand group moves left by the shortfall if its Left   *)
(* stays >= 0, otherwise neither moves.  A pair whose vertical intervals   *)
(* do not overlap moves nothing, and a slide with fewer than two groups    *)
(* is left alone.                                                          *)
(***************************************************************************)
LeftOf(s) == IF s.xfrm THEN s.left ELSE 0
TopOf(s) == IF s.xfrm THEN s.top ELSE 0
WidthOf(s) == IF s.xfrm THEN s.width ELSE 0
HeightOf(s) == IF s.xfrm THEN s.height ELSE 0

GroupsOf(tree) == {i \in 1..Len(tree) : IsGroup(tree[i])}

\* the position of group i in the ascending order of Left (ties in slide order)
RankByLeft(tree, i) ==
    1 + Cardinality({j \in GroupsOf(tree) :
                        \/ LeftOf(tree[j]) < LeftOf(tree[i])
                        \/ LeftOf(tree[j]) = LeftOf(tree[i]) /\ j < i})

GroupAtRank(tree, r) == CHOOSE i \in GroupsOf(tree) : RankByLeft(tree, i) = r

Shortfall(a, b) == MinSpacing - (LeftOf(b) - (LeftOf(a) + WidthOf(a)))

PairCollides(a, b) ==
    /\ Shortfall(a, b) > 0
    /\ TopOf(a) < TopOf(b) + HeightOf(b)
    /\ TopOf(b) < TopOf(a) + HeightOf(a)

RightHandShifts(a, b, w) ==
    PairCollides(a, b) /\ LeftOf(b) + Shortfall(a, b) + WidthOf(b) <= w

LeftHandShifts(a, b, w) ==
    /\ PairCollides(a, b) /\ ~RightHandShifts(a, b, w)
    /\ LeftOf(a) - Shortfall(a, b) >= 0

Unresolved(a, b, w) ==
    PairCollides(a, b) /\ ~RightHandShifts(a, b, w) /\ ~LeftHandShifts(a, b, w)

\* the slide after the rule was applied to the adjacent pair (c, n)
PairRule(tree, c, n, w) ==
    [k \in 1..Len(tree) |->
        IF k = n /\ RightHandShifts(tree[c], tree[n], w)
        THEN [tree[k] EXCEPT !.left = LeftOf(tree[n]) + Shortfall(tree[c], tree[n])]
        ELSE IF k = c /\ LeftHandShifts(tree[c], tree[n], w)
        THEN [tree[k] EXCEPT !.left = LeftOf(tree[c]) - Shortfall(tree[c], tree[n])]
        ELSE tree[k]]

\* the rule applied to the adjacent pairs r, r + 1 of the order fixed at entry
RECURSIVE PairsFrom(_, _, _, _)
PairsFrom(entry, tree, r, w) ==
    IF r >= Cardinality(GroupsOf(entry)) THEN tree
    ELSE PairsFrom(entry,
                   PairRule(tree, GroupAtRank(entry, r), GroupAtRank(entry, r + 1), w),
                   r + 1, w)

C22_GroupPairRule ==
    op = "adjust" =>
        shapes = IF Cardinality(GroupsOf(pre)) < 2 THEN pre
                 ELSE PairsFrom(pre, pre, 1, slideW)

\* C22 witness: a slide with two groups in collision where the right-hand
\* group had no room and the left-hand group was shifted left
C22_Witness ==
    /\ op = "adjust"
    /\ Cardinality(GroupsOf(pre)) = 2
    /\ LeftHandShifts(pre[GroupAtRank(pre, 1)], pre[GroupAtRank(pre, 2)], slideW)
    /\ shapes # pre

\* C22: reached as well: a pair with too small a horizontal gap whose
\* vertical intervals are disjoint, left in place
VerticallySeparatedKept ==
    /\ op = "adjust"
    /\ Cardinality(GroupsOf(pre)) = 2
    /\ LET a == pre[GroupAtRank(pre, 1)]
           b == pre[GroupAtRank(pre, 2)]
       IN  Shortfall(a, b) > 0 /\ ~PairCollides(a, b)
    /\ shapes = pre

(***************************************************************************)
(* C23 as stated: the slide handed to text replacement (the slide after    *)
(* the collision stage that follows the mirror) has had both sub-passes    *)
(* applied, the chart-vs-shape pass and the group-vs-group pass, in either *)
(* order.                                                                  *)
(***************************************************************************)
BothSubPasses(tree, w) ==
    {AdjustOverlappingGroups(FixChartCollisions(tree, w), w),
     FixChartCollisions(AdjustOverlappingGroups(tree, w), w)}

C23_BothSubPassesApplied ==
    stage = "fixed" => shapes \in BothSubPasses(pre, slideW)

(***************************************************************************)
(* C24 as stated: a mirrored shape whose name contains "arrow" in any      *)
(* letter case gets the rotation (180 - angle) mod 360, a value in         *)
(* 0..359; a mirrored shape whose name does not contain it keeps its       *)
(* rotation.                                                               *)
(***************************************************************************)
UpperCase == <<"A", "B", "C", "D", "E", "F", "G", "H", "I", "J", "K", "L", "M",
               "N", "O", "P", "Q", "R", "S", "T", "U", "V", "W", "X", "Y", "Z">>
LowerCase == <<"a", "b", "c", "d", "e", "f", "g", "h", "i", "j", "k", "l", "m",
               "n", "o", "p", "q", "r", "s", "t", "u", "v", "w", "x", "y", "z">>

Lower(name) ==
    [k \in 1..Len(name) |->
        IF \E u \in 1..Len(UpperCase) : UpperCase[u] = name[k]
        THEN LowerCase[CHOOSE u \in 1..Len(UpperCase) : UpperCase[u] = name[k]]
        ELSE name[k]]

NamedArrow(shape) == In(<<"a", "r", "r", "o", "w">>, Lower(shape.name))

WasMirrored == op = "flip" /\ arrowPre.shape_type # "CHART"

C24_ArrowRotationMirrored ==
    (stage = "arrow" /\ WasMirrored) =>
        /\ arrow.rotation \in 0..359
        /\ arrow.rotation = IF NamedArrow(arrowPre)
                            THEN (180 - arrowPre.rotation) % 360
                            ELSE arrowPre.rotation

(***************************************************************************)
(* C25: grouping preserves absolute geometry.  For every member of a group *)
(* created by group_chart_elements, the stored local position is the       *)
(* member's position before grouping minus the origin of the members'      *)
(* bounding box, which is the group's origin, so group origin + local      *)
(* position = original position; the member's width and height are         *)
(* unchanged.                                                              *)
(***************************************************************************)
OriginalOf(tree, kid) == tree[CHOOSE i \in 1..Len(tree) : tree[i].id = kid.id]

BoxOrigin(tree, g) ==
    <<SetMin({tree[i].left : i \in Originals(tree, g)}),
      SetMin({tree[i].top : i \in Originals(tree, g)})>>

MemberKeepsGeometry(tree, g, kid) ==
    LET o == OriginalOf(tree, kid)
    IN  /\ kid.left = o.left - BoxOrigin(tree, g)[1]
        /\ kid.top = o.top - BoxOrigin(tree, g)[2]
        /\ g.left + kid.left = o.left
        /\ g.top + kid.top = o.top
        /\ kid.width = o.width
        /\ kid.height = o.height

C26_ElementIdsDenoteSameShape ==
    op = "group" =>
        \A e \in DOMAIN ExtractSlideStructure(pre) :
            /\ e \in DOMAIN ShapeMap(shapes)
            /\ ShapeMap(shapes)[e] = ExtractSlideStructure(pre)[e]

(***************************************************************************)
(* C27 as stated: the translation client is constructed exactly once: no   *)
(* two slide tasks each construct one, and every task that got a client    *)
(* back got the one client of the job.                                     *)
(***************************************************************************)
C27_ClientConstructedOnce ==
    stage = "client" =>
        /\ constructed <= 1
        /\ \A t \in Tasks : tpc[t] = "done" => (constructed = 1 /\ used[t] = 1)

(***************************************************************************)
(* C28 as stated: the shape order of a slide is preserved by grouping: any *)
(* two original shapes come, in the output's depth-first shape order       *)
(* (group children taken in place), in the same relative order as in the   *)
(* input.                                                                  *)
(***************************************************************************)
RECURSIVE DepthFirst(_)
DepthFirst(list) ==
    IF list = <<>> THEN <<>>
    ELSE (IF IsGroup(Head(list)) THEN DepthFirst(Head(list).kids)
          ELSE <<Head(list).id>>) \o DepthFirst(Tail(list))

PlaceOf(order, id) == CHOOSE i \in 1..Len(order) : order[i] = id

SameRelativeOrder(before, after, ids) ==
    \A a, b \in ids :
        PlaceOf(before, a) < PlaceOf(before, b) => PlaceOf(after, a) < PlaceOf(after, b)

C28_ShapeOrderPreserved ==
    op = "group" =>
        SameRelativeOrder(DepthFirst(pre), DepthFirst(shapes),
                          {DepthFirst(pre)[i] : i \in 1..Len(DepthFirst(pre))})

(***************************************************************************)
(* C29 as stated: in collision detection the box recorded for every group  *)
(* with a position is its real box, right = left + width and               *)
(* bottom = top + height, also for a group whose Left or Top is 0, and     *)
(* every chart group that overlaps a group without a chart is reported as  *)
(* colliding with it.                                                      *)
(***************************************************************************)
RecordedBoxIsReal(tree, i) ==
    /\ GroupInfo(tree, i).right = tree[i].left + tree[i].width
    /\ GroupInfo(tree, i).bottom = tree[i].top + tree[i].height

Reported(tree, i, j) ==
    \E k \in 1..Len(DetectChartCollisions(tree)) :
        /\ DetectChartCollisions(tree)[k].chart_group.shape = i
        /\ DetectChartCollisions(tree)[k].other_group.shape = j

C29_RecordedBoxIsRealBox ==
    op = "fix" =>
        /\ \A i \in GroupsOf(pre) : pre[i].xfrm => RecordedBoxIsReal(pre, i)
        /\ \A i, j \in GroupsOf(pre) :
               (/\ ContainsChart(pre[i]) /\ ~ContainsChart(pre[j])
                /\ pre[i].xfrm /\ pre[j].xfrm
                /\ Overlap(pre[i], pre[j])) => Reported(pre, i, j)

(***************************************************************************)
(* C30 as stated: the numeric id given to a group created by               *)
(* group_chart_elements differs from the id of every other shape of the    *)
(* slide: the shapes that were there before, the members, and the groups   *)
(* created earlier in the same run.                                        *)
(***************************************************************************)
RECURSIVE IdsOf(_)
IdsOf(list) ==
    IF list = <<>> THEN <<>>
    ELSE <<Head(list).id>> \o IdsOf(Head(list).kids) \o IdsOf(Tail(list))

TimesUsed(tree, id) == Cardinality({k \in 1..Len(IdsOf(tree)) : IdsOf(tree)[k] = id})

C30_NewGroupIdIsFresh ==
    op = "group" =>
        \A n \in 1..ret : TimesUsed(shapes, NewGroups(shapes, ret)[n].id) = 1
====
